---- MODULE Spec2Model ----
(***************************************************************************)
(* The weather database of NoSQL-Weather-Database: the document            *)
(* collections kept in MongoDB and the handlers of test_crud.py that       *)
(* mutate them (append a reading, recompute the day summary, rename an     *)
(* owner), with the store primitives of helper.py they call; the imports   *)
(* of build_database_and_import_data.py; the reports test_crud.py derives  *)
(* (weather extremes, storage sizes) and the read queries of               *)
(* test_read_queries.py (pages of a balloon launch, cooler afternoons,     *)
(* average temperature in a time range, technician activity, user          *)
(* validation); the users and their hashed passwords (model.py,            *)
(* encrypt.py), the maintenance logs and the radiosonde import with its    *)
(* point geometries.                                                       *)
(*                                                                         *)
(* Documents are functions from field names to values, so that a field     *)
(* can be absent.  Numbers are integers in fixed units (temperatures,      *)
(* pressure and precipitation in tenths, wind speed in hundredths,         *)
(* time stamps in seconds from 2025-04-10 00:00).  A mean computed by      *)
(* $avg is the exact fraction [num, den].                                  *)
(***************************************************************************)
EXTENDS Integers, Sequences, FiniteSets, TLC

VARIABLES
    weather_reports,   \* collection weather_reports: _id -> document
    weather_stations,  \* collection weather_stations: _id -> document
    users,             \* collection users: _id -> document
    log,               \* what the handler that ran last wrote to the log
    document_id,       \* the report the update scenario works on
    writers,           \* concurrent clients: each one's handler and position
    rename,            \* position in rename_a_weather_station_owner
    before,            \* the collections as read before a scenario began
    weather_extremes,                \* collection weather_extremes
    weather_report_storage_report,   \* collection weather_report_storage_report
    weather_balloon_reports,         \* collection weather_balloon_reports
    query_result,      \* what the query that ran last returned
    maintenance_logs   \* collection maintenance_logs: _id -> document

\* the derived collections, the balloon reports and the query result
derived == <<weather_extremes, weather_report_storage_report,
             weather_balloon_reports, query_result>>

vars == <<weather_reports, weather_stations, users, log, document_id, writers,
          rename, before, derived, maintenance_logs>>

(***************************************************************************)
(* Bounds of the model.                                                    *)
(***************************************************************************)
MaxReadings == 3   \* a report holds at most this many readings
MaxVersion == 5    \* no handler runs on a report whose version is this
MaxReports == 7    \* SpecImport fills weather_reports up to this many reports
MaxBalloonReadings == 3   \* a balloon launch holds at most this many readings
MaxPageSize == 2   \* the readings of a launch are read in pages of at most this
MaxLogDays == 7    \* the maintenance logs generated start this many days back
MaxBalloonReports == 2    \* weather_balloon_reports is filled up to this many

(***************************************************************************)
(* Values.                                                                 *)
(***************************************************************************)
NoFields == <<>>

Absent == <<>>

Some(x) == <<x>>

Soil(t1, m1, t2, m2, t3, m3, t4, m4) ==
    [d0_to_7cm |-> [temp |-> t1, moisture |-> m1],
     d7_to_28cm |-> [temp |-> t2, moisture |-> m2],
     d28_to_100cm |-> [temp |-> t3, moisture |-> m3],
     d100_to_255cm |-> [temp |-> t4, moisture |-> m4]]

reading_london_midnight ==
    [timestamp |-> 0, sample_duration |-> 3600, temp |-> 65, dewpoint |-> 25,
     humidity |-> 76, pressure |-> 10327, precip |-> 0, cloud_cover |-> 25,
     wind_speed |-> 262, wind_direction |-> 43, sunshine |-> 0,
     soil |-> Soil(96, 12, 117, 126, 103, 280, 80, 291)]

reading_london_1am ==
    [timestamp |-> 3600, sample_duration |-> 3600, temp |-> 60, dewpoint |-> 18,
     humidity |-> 75, pressure |-> 10327, precip |-> 0, cloud_cover |-> 24,
     wind_speed |-> 221, wind_direction |-> 38, sunshine |-> 0,
     soil |-> Soil(89, 10, 117, 126, 103, 280, 80, 291)]

reading_london_2am ==
    [timestamp |-> 7200, sample_duration |-> 3600, temp |-> 56, dewpoint |-> 20,
     humidity |-> 77, pressure |-> 10325, precip |-> 11, cloud_cover |-> 44,
     wind_speed |-> 208, wind_direction |-> 35, sunshine |-> 0,
     soil |-> Soil(81, 10, 116, 126, 103, 279, 80, 291)]

Readings == {reading_london_midnight, reading_london_1am, reading_london_2am}

(***************************************************************************)
(* Documents.                                                              *)
(***************************************************************************)
\* insert_new_weather_report: the London report of 10th April 2025
new_weather_report ==
    [date |-> 0, version |-> 1, last_modified |-> 0,
     location |-> [type |-> "Point", coordinates |-> <<-1630249, 514938470>>],
     station |-> [station_id |-> "WS-LON002", name |-> "London"],
     owner |-> [owner_type |-> "Government", user_id |-> "metoff1",
                name |-> "Met Office"],
     readings |-> <<>>]

\* DateHelper.get_end_of_day: the date with the time set to 23:59:59
get_end_of_day(dt) == dt + 23 * 3600 + 59 * 60 + 59

\* one hourly row and the daily row of an Open-Meteo file, as load_from_csv
\* builds them (09:00 of the day before 10th April 2025)
csv_reading(date) ==
    [timestamp |-> date + 9 * 3600, sample_duration |-> 3600, temp |-> 91,
     dewpoint |-> 40, humidity |-> 70, pressure |-> 10301, precip |-> 2,
     cloud_cover |-> 60, wind_speed |-> 310, wind_direction |-> 50,
     sunshine |-> 1800,
     soil |-> Soil(90, 11, 115, 126, 103, 280, 80, 291)]

csv_day_summary ==
    [temp_mean |-> [num |-> 88, den |-> 1], temp_min |-> 41, temp_max |-> 133,
     dewpoint_mean |-> [num |-> 38, den |-> 1],
     humidity_mean |-> [num |-> 72, den |-> 1],
     humidity_min |-> 55, humidity_max |-> 90,
     pressure_mean |-> [num |-> 10300, den |-> 1],
     pressure_min |-> 10280, pressure_max |-> 10320,
     precip_sum |-> 14,
     cloud_cover_mean |-> [num |-> 58, den |-> 1],
     wind_speed_mean |-> [num |-> 300, den |-> 1],
     wind_speed_min |-> 120, wind_speed_max |-> 520,
     sunshine |-> 21600]

\* WeatherReport.get_weather_report_doc for a report built by load_from_csv
imported_weather_report(date, station, owner, location) ==
    [date |-> date, version |-> 1, last_modified |-> get_end_of_day(date),
     location |-> location, station |-> station, owner |-> owner,
     readings |-> <<csv_reading(date)>>, day_summary |-> csv_day_summary]

\* a hash_password that stores the password as it is
hash_password_in_clear(plain_password, salt) == plain_password

\* EncryptionHelper.hash_password: one-way, with a generated salt
hash_password(plain_password, salt) == <<"bcrypt", salt, plain_password>>

\* EncryptionHelper.encrypt: reversible, under the fixed key
encrypt(plain_text) == <<"fernet", plain_text>>

\* Institution.get_user_doc
institution_user_doc(password, institution_type, institution_name, contact, email, telephone) ==
    [password |-> password, user_type |-> institution_type,
     institution |-> institution_name, contact |-> contact, email |-> email,
     telephone |-> telephone]

\* Institution.get_subset_for_weather_station
institution_subset_for_weather_station(user_id, institution_type, institution_name, contact, email, telephone) ==
    [owner_type |-> institution_type, user_id |-> user_id,
     name |-> institution_name, contact |-> contact, email |-> email,
     telephone |-> telephone]

\* Institution.get_subset_for_weather_report
institution_subset_for_weather_report(user_id, institution_type, institution_name) ==
    [owner_type |-> institution_type, user_id |-> user_id,
     name |-> institution_name]

\* WeatherWatcher.get_user_doc
weather_watcher_user_doc(password, display_name, name, email) ==
    [password |-> password, user_type |-> "Private", name |-> encrypt(name),
     display_name |-> display_name, email |-> encrypt(email)]

\* WeatherWatcher.get_subset_for_weather_station and
\* WeatherWatcher.get_subset_for_weather_report
weather_watcher_subset(user_id, display_name) ==
    [owner_type |-> "Private", user_id |-> user_id, name |-> display_name]

\* WeatherStation.get_weather_station_doc, without latest_maintenance
weather_station_doc(name, location, owner) ==
    [name |-> name, location |-> location, owner |-> owner, status |-> "Online"]

\* WeatherStation.get_subset_for_weather_report
station_subset_for_weather_report(station_id, name) ==
    [station_id |-> station_id, name |-> name]

\* Location.to_geojson: longitude first, latitude second
to_geojson(latitude, longitude) ==
    [type |-> "Point", coordinates |-> <<longitude, latitude>>]

(***************************************************************************)
(* The database build_database_and_import_data.py leaves: the users of     *)
(* TestDataGenerator and the stations and reports import_data inserts      *)
(* (one day of one reading for each report).                               *)
(***************************************************************************)
CambridgeLocation == to_geojson(522000000, 1000000)

IpswichLocation == to_geojson(520600000, 11500000)

ImportedUsers ==
    [u \in {"camUni", "metoff1", "ps2004", "sp_hawk"} |->
        CASE u = "camUni" ->
                institution_user_doc(hash_password("Pa$$1234", "salt1"),
                    "University", "Cambridge University", "Mr Andy Hopper",
                    "weatherlab@cam.ac.uk", "01223763500")
          [] u = "metoff1" ->
                institution_user_doc(hash_password("Pa$$5678", "salt2"),
                    "Government", "Met Office", "Mr Simon Jones",
                    "stations@metoffice.gov.uk", "03709000100")
          [] u = "ps2004" ->
                weather_watcher_user_doc(hash_password("Pa$$1234", "salt3"),
                    "Paul S", "Paul Smithers", "pauls@gmail.com")
          [] OTHER ->
                weather_watcher_user_doc(hash_password("Pa$$1234", "salt4"),
                    "Simon", "Simon Peters", "peters27@outlook.com")]

CambridgeOwnerOfStation ==
    institution_subset_for_weather_station("camUni", "University",
        "Cambridge University", "Mr Andy Hopper", "weatherlab@cam.ac.uk",
        "01223763500")

CambridgeOwnerOfReport ==
    institution_subset_for_weather_report("camUni", "University",
        "Cambridge University")

ImportedStations ==
    [s \in {"WS-UNI001", "WS-WW1001"} |->
        IF s = "WS-UNI001"
        THEN weather_station_doc("Cambridge", CambridgeLocation,
                                 CambridgeOwnerOfStation)
        ELSE weather_station_doc("Ipswich", IpswichLocation,
                                 weather_watcher_subset("ps2004", "Paul S"))]

CambridgeReport(date) ==
    imported_weather_report(date,
        station_subset_for_weather_report("WS-UNI001", "Cambridge"),
        CambridgeOwnerOfReport, CambridgeLocation)

IpswichReport(date) ==
    imported_weather_report(date,
        station_subset_for_weather_report("WS-WW1001", "Ipswich"),
        weather_watcher_subset("ps2004", "Paul S"), IpswichLocation)

(***************************************************************************)
(* The store: update operators, filters, update_one and update_many.       *)
(***************************************************************************)
\* a filter is [path, value]; the paths the handlers use
Matches(id, doc, filter) ==
    CASE filter.path = "_id" -> id = filter.value
      [] filter.path = "owner.user_id" ->
            /\ "owner" \in DOMAIN doc
            /\ doc["owner"].user_id = filter.value
      [] OTHER -> FALSE

Matching(coll, filter) == {id \in DOMAIN coll : Matches(id, coll[id], filter)}

\* $set: writes each field, creating it when the document has none;
\* "owner.name" is the field name of the embedded owner document
ApplySet(doc, s) ==
    LET top == DOMAIN s \ {"owner.name"}
        d1 == [f \in DOMAIN doc \cup top |-> IF f \in top THEN s[f] ELSE doc[f]]
    IN  IF "owner.name" \notin DOMAIN s THEN d1
        ELSE IF "owner" \in DOMAIN d1
             THEN [d1 EXCEPT !["owner"] =
                      [g \in DOMAIN @ \cup {"name"} |->
                          IF g = "name" THEN s["owner.name"] ELSE @[g]]]
             ELSE [f \in DOMAIN d1 \cup {"owner"} |->
                      IF f = "owner" THEN [name |-> s["owner.name"]] ELSE d1[f]]

\* $inc: adds to each field, a missing field counting as 0
ApplyInc(doc, i) ==
    [f \in DOMAIN doc \cup DOMAIN i |->
        IF f \in DOMAIN i
        THEN (IF f \in DOMAIN doc THEN doc[f] ELSE 0) + i[f]
        ELSE doc[f]]

\* a $push that puts the new element first
ApplyPushFront(doc, p) ==
    [f \in DOMAIN doc \cup DOMAIN p |->
        IF f \in DOMAIN p
        THEN <<p[f]>> \o (IF f \in DOMAIN doc THEN doc[f] ELSE <<>>)
        ELSE doc[f]]

\* $push: appends to each array field, a missing field counting as empty
ApplyPush(doc, p) ==
    [f \in DOMAIN doc \cup DOMAIN p |->
        IF f \in DOMAIN p
        THEN Append(IF f \in DOMAIN doc THEN doc[f] ELSE <<>>, p[f])
        ELSE doc[f]]

\* one update document applied to one document, as a single atomic write
ApplyUpdate(doc, update) ==
    ApplyPush(ApplyInc(ApplySet(doc, update.set), update.inc), update.push)

\* collection.update_one: the update applied to one matching document
update_one(coll, filter, update) ==
    LET matched == Matching(coll, filter)
    IN  IF matched = {} THEN coll
        ELSE LET id == CHOOSE k \in matched : TRUE
             IN  [coll EXCEPT ![id] = ApplyUpdate(@, update)]

\* an update_many that stops at the first matching document
update_many_first_match(coll, filter, update) ==
    LET matched == Matching(coll, filter)
    IN  IF matched = {} THEN coll
        ELSE LET id == CHOOSE k \in matched : TRUE
             IN  [coll EXCEPT ![id] = ApplyUpdate(@, update)]

\* collection.update_many: the update applied to every matching document
update_many(coll, filter, update) ==
    [id \in DOMAIN coll |->
        IF Matches(id, coll[id], filter) THEN ApplyUpdate(coll[id], update)
        ELSE coll[id]]

\* UpdateResult.modified_count of update_one and of update_many
modified_count(coll, after) ==
    Cardinality({id \in DOMAIN coll : after[id] # coll[id]})

(***************************************************************************)
(* The aggregation pipeline of the day summary.                            *)
(***************************************************************************)
RECURSIVE SeqSum(_)
RECURSIVE SeqMin(_)
RECURSIVE SeqMax(_)
RECURSIVE Unwind(_)
RECURSIVE GroupKeys(_, _)

SeqSum(s) == IF s = <<>> THEN 0 ELSE Head(s) + SeqSum(Tail(s))

SeqMin(s) ==
    IF Len(s) = 1 THEN s[1]
    ELSE LET m == SeqMin(Tail(s)) IN IF Head(s) < m THEN Head(s) ELSE m

SeqMax(s) ==
    IF Len(s) = 1 THEN s[1]
    ELSE LET m == SeqMax(Tail(s)) IN IF Head(s) > m THEN Head(s) ELSE m

\* $avg: the sum over the count, kept as the exact fraction
SeqAvg(s) == [num |-> SeqSum(s), den |-> Len(s)]

\* the documents of a collection as a pipeline reads them, each with its _id
WithId(id, doc) ==
    [f \in DOMAIN doc \cup {"_id"} |-> IF f = "_id" THEN id ELSE doc[f]]

Without(doc, field) == [f \in DOMAIN doc \ {field} |-> doc[f]]

\* {"$match": {"_id": id}}
MatchId(coll, id) == IF id \in DOMAIN coll THEN <<WithId(id, coll[id])>> ELSE <<>>

\* an $unwind that keeps the latest reading only
UnwindLatestOnly(doc) ==
    IF "readings" \notin DOMAIN doc \/ doc["readings"] = <<>> THEN <<>>
    ELSE <<[doc EXCEPT !["readings"] = doc["readings"][Len(doc["readings"])]]>>

\* {"$unwind": "$readings"} on one document: one document per reading, none
\* for a document whose readings are missing or empty
UnwindOne(doc) ==
    IF "readings" \notin DOMAIN doc THEN <<>>
    ELSE [i \in 1..Len(doc["readings"]) |->
             [doc EXCEPT !["readings"] = doc["readings"][i]]]

Unwind(docs) ==
    IF docs = <<>> THEN <<>> ELSE UnwindOne(Head(docs)) \o Unwind(Tail(docs))

\* the distinct values of _id, in the order they first appear
GroupKeys(docs, seen) ==
    IF docs = <<>> THEN <<>>
    ELSE IF Head(docs)["_id"] \in seen THEN GroupKeys(Tail(docs), seen)
         ELSE <<Head(docs)["_id"]>>
                  \o GroupKeys(Tail(docs), seen \cup {Head(docs)["_id"]})

\* "$readings.<field>" over the documents of one group
ReadingField(docs, field) == [i \in 1..Len(docs) |-> docs[i]["readings"][field]]

\* the accumulators of the $group stage over the documents of one group
DaySummaryOf(key, docs) ==
    [_id |-> key,
     temp_mean |-> SeqAvg(ReadingField(docs, "temp")),
     temp_min |-> SeqMin(ReadingField(docs, "temp")),
     temp_max |-> SeqMax(ReadingField(docs, "temp")),
     dewpoint_mean |-> SeqAvg(ReadingField(docs, "dewpoint")),
     humidity_mean |-> SeqAvg(ReadingField(docs, "humidity")),
     humidity_min |-> SeqMin(ReadingField(docs, "humidity")),
     humidity_max |-> SeqMax(ReadingField(docs, "humidity")),
     pressure_mean |-> SeqAvg(ReadingField(docs, "pressure")),
     pressure_min |-> SeqMin(ReadingField(docs, "pressure")),
     pressure_max |-> SeqMax(ReadingField(docs, "pressure")),
     precip_sum |-> SeqSum(ReadingField(docs, "precip")),
     cloud_cover_mean |-> SeqAvg(ReadingField(docs, "cloud_cover")),
     wind_speed_mean |-> SeqAvg(ReadingField(docs, "wind_speed")),
     wind_speed_min |-> SeqMin(ReadingField(docs, "wind_speed")),
     wind_speed_max |-> SeqMax(ReadingField(docs, "wind_speed")),
     sunshine |-> SeqSum(ReadingField(docs, "sunshine"))]

\* {"$group": {"_id": "$_id", ...}}
GroupDaySummary(docs) ==
    LET keys == GroupKeys(docs, {})
    IN  [k \in 1..Len(keys) |->
            DaySummaryOf(keys[k], SelectSeq(docs, LAMBDA d : d["_id"] = keys[k]))]

\* MongoDBHandler.aggregate on the day-summary pipeline: the list of results
aggregate_day_summary(coll, weather_report_id) ==
    GroupDaySummary(Unwind(MatchId(coll, weather_report_id)))

(***************************************************************************)
(* The update documents the handlers build.                                *)
(***************************************************************************)
\* a reading update that writes the version the client read at its start,
\* plus 1, in place of $inc
ReadingUpdateFromVersionRead(reading, last_modified) ==
    [push |-> [readings |-> reading],
     inc |-> NoFields,
     set |-> [last_modified |-> last_modified,
              version |-> before[1].weather_reports[document_id]["version"] + 1]]

\* insert_new_weather_station_reading
ReadingUpdate(reading, last_modified) ==
    [push |-> [readings |-> reading],
     inc |-> [version |-> 1],
     set |-> [last_modified |-> last_modified]]

\* a day-summary update without $inc
DaySummaryUpdateWithoutInc(day_summary) ==
    [push |-> NoFields, inc |-> NoFields, set |-> [day_summary |-> day_summary]]

\* use_aggregation_pipeline_to_compute_a_day_summary
DaySummaryUpdate(day_summary) ==
    [push |-> NoFields,
     inc |-> [version |-> 1],
     set |-> [day_summary |-> day_summary]]

IdFilter(id) == [path |-> "_id", value |-> id]

(***************************************************************************)
(* The log: what the handler that ran last logged (the filter and the      *)
(* update it sent, the number of documents the aggregation found and the   *)
(* number the store modified).                                             *)
(***************************************************************************)
NoLog == [handler |-> "none", filter |-> Absent, found |-> 0, update |-> Absent,
          modified |-> 0]

LogEntry(handler, filter, found, update, modified) ==
    [handler |-> handler, filter |-> Some(filter), found |-> found,
     update |-> update, modified |-> modified]

(***************************************************************************)
(* The handlers of the update protocol.                                    *)
(***************************************************************************)
Version(doc) == doc["version"]

ReadingsOf(doc) == IF "readings" \in DOMAIN doc THEN doc["readings"] ELSE <<>>

\* the bounds: a handler runs on a report whose version is below MaxVersion,
\* and a reading is appended to fewer than MaxReadings readings
BelowMaxVersion(id) ==
    id \in DOMAIN weather_reports => Version(weather_reports[id]) < MaxVersion

BelowMaxReadings(id) ==
    id \in DOMAIN weather_reports =>
        Len(ReadingsOf(weather_reports[id])) < MaxReadings

\* CRUD_tests.insert_new_weather_station_reading: one update_one
insert_new_weather_station_reading(weather_report_id, reading, last_modified) ==
    LET filter == IdFilter(weather_report_id)
        update == ReadingUpdate(reading, last_modified)
        after == update_one(weather_reports, filter, update)
    IN  /\ weather_reports' = after
        /\ log' = LogEntry("insert_new_weather_station_reading", filter, 0,
                           Some(update), modified_count(weather_reports, after))
        /\ UNCHANGED <<weather_stations, users>>

\* insert_new_weather_station_reading_london_midnight, _1am and _2am: the
\* reading's own time stamp is passed as last_modified
insert_new_weather_station_reading_london(weather_report_id, reading) ==
    insert_new_weather_station_reading(weather_report_id, reading,
                                       reading.timestamp)

\* a write-back without `if result:`, which writes the summary of no reading
write_day_summary_unconditionally(weather_report_id, result) ==
    LET filter == IdFilter(weather_report_id)
        update == DaySummaryUpdate(IF result # <<>>
                                   THEN Without(result[1], "_id") ELSE NoFields)
        after == update_one(weather_reports, filter, update)
    IN  /\ weather_reports' = after
        /\ log' = LogEntry("use_aggregation_pipeline_to_compute_a_day_summary",
                           filter, Len(result), Some(update),
                           modified_count(weather_reports, after))
        /\ UNCHANGED <<weather_stations, users>>

\* use_aggregation_pipeline_to_compute_a_day_summary, from `if result:` on:
\* the summary of the first result is written back, and nothing is written
\* when the aggregation found no document
write_day_summary(weather_report_id, result) ==
    LET filter == IdFilter(weather_report_id)
    IN  IF result # <<>>
        THEN LET update == DaySummaryUpdate(Without(result[1], "_id"))
                 after == update_one(weather_reports, filter, update)
             IN  /\ weather_reports' = after
                 /\ log' = LogEntry(
                        "use_aggregation_pipeline_to_compute_a_day_summary",
                        filter, Len(result), Some(update),
                        modified_count(weather_reports, after))
                 /\ UNCHANGED <<weather_stations, users>>
        ELSE /\ log' = LogEntry(
                        "use_aggregation_pipeline_to_compute_a_day_summary",
                        filter, 0, Absent, 0)
             /\ UNCHANGED <<weather_reports, weather_stations, users>>

\* CRUD_tests.use_aggregation_pipeline_to_compute_a_day_summary, run to its
\* end with no other writer in between
use_aggregation_pipeline_to_compute_a_day_summary(weather_report_id) ==
    write_day_summary(weather_report_id,
                      aggregate_day_summary(weather_reports, weather_report_id))

(***************************************************************************)
(* Clients and scenarios that are not running.                             *)
(***************************************************************************)
NoWriters == <<>>

NoRename == [step |-> 0, running |-> FALSE, crashed |-> FALSE,
             user_id |-> "", new_name |-> "", modification_date |-> 0]

NoSnapshot == <<>>

NoDocuments == <<>>

\* no derived collection has been built, no balloon launch imported and no
\* query run
NothingDerived ==
    /\ weather_extremes = NoDocuments
    /\ weather_report_storage_report = NoDocuments
    /\ weather_balloon_reports = NoDocuments
    /\ query_result = NoDocuments

(***************************************************************************)
(* Spec: the update protocol with one writer at a time.  The database is   *)
(* the one after the import and one insert_new_weather_report: report 1 is *)
(* an imported report, report 2 the new London report and report 3 a       *)
(* report of manual observations, which has no readings field.  The        *)
(* scenario create_weather_report_adding_hourly_readings runs its handlers *)
(* on one report, document_id, which here is any of the three.             *)
(***************************************************************************)
\* TestDataGenerator.manualReport1, the photo left out
manual_weather_report ==
    [date |-> -43 * 86400, version |-> 1,
     last_modified |-> -43 * 86400 + 14 * 3600 + 12 * 60,
     location |-> to_geojson(520933200, 13204200),
     owner |-> weather_watcher_subset("ps2004", "Paul S"),
     observations |-> <<[timestamp |-> -43 * 86400 + 14 * 3600 + 12 * 60,
                         category |-> "Heavy rain", temp |-> 100,
                         description |-> "Heavy rain caused flooding"]>>]

\* TestDataGenerator.manualReport2, the photo left out
manual_weather_report_2 ==
    [date |-> -45 * 86400, version |-> 1,
     last_modified |-> -45 * 86400 + 10 * 3600 + 53 * 60,
     location |-> to_geojson(521889300, 9977400),
     owner |-> weather_watcher_subset("sp_hawk", "Simon"),
     observations |-> <<[timestamp |-> -45 * 86400 + 10 * 3600 + 53 * 60,
                         category |-> "Light showers", temp |-> 110,
                         description |-> "Double rainbow",
                         wind_speed |-> 500, wind_direction |-> 205]>>]

ReportIds == {1, 2, 3}

ImportedReports ==
    (1 :> CambridgeReport(-86400) @@ 2 :> new_weather_report
       @@ 3 :> manual_weather_report)

Init ==
    /\ weather_reports = ImportedReports
    /\ weather_stations = ImportedStations
    /\ users = ImportedUsers
    /\ log = NoLog
    /\ document_id \in ReportIds
    /\ writers = NoWriters
    /\ rename = NoRename
    /\ before = NoSnapshot
    /\ NothingDerived
    /\ maintenance_logs = NoDocuments

AppendReading(reading) ==
    /\ BelowMaxVersion(document_id)
    /\ BelowMaxReadings(document_id)
    /\ insert_new_weather_station_reading_london(document_id, reading)
    /\ UNCHANGED <<document_id, writers, rename, before>>
    /\ UNCHANGED <<derived, maintenance_logs>>

RecomputeSummary ==
    /\ BelowMaxVersion(document_id)
    /\ use_aggregation_pipeline_to_compute_a_day_summary(document_id)
    /\ UNCHANGED <<document_id, writers, rename, before>>
    /\ UNCHANGED <<derived, maintenance_logs>>

Next ==
    \/ \E reading \in Readings : AppendReading(reading)
    \/ RecomputeSummary

Spec == Init /\ [][Next]_vars

(***************************************************************************)
(* SpecRace: two writers on the same report, with no lock between them.    *)
(* A writer that appends sends one update_one; a writer that recomputes    *)
(* runs the aggregation first and sends its update_one afterwards, so a    *)
(* write of the other writer can fall between the two.  before holds the   *)
(* collections as they were when the writers started.                      *)
(***************************************************************************)
Writers == {"w1", "w2"}

Snapshot ==
    Some([weather_reports |-> weather_reports,
          weather_stations |-> weather_stations, users |-> users])

AppendWriter(reading) ==
    [handler |-> "insert_new_weather_station_reading",
     reading |-> Some(reading), pc |-> "start", result |-> Absent]

RecomputeWriter ==
    [handler |-> "use_aggregation_pipeline_to_compute_a_day_summary",
     reading |-> Absent, pc |-> "start", result |-> Absent]

WriterStarts == {AppendWriter(reading) : reading \in Readings} \cup {RecomputeWriter}

InitRace ==
    /\ weather_reports = ImportedReports
    /\ weather_stations = ImportedStations
    /\ users = ImportedUsers
    /\ log = NoLog
    /\ document_id \in ReportIds
    /\ writers \in [Writers -> WriterStarts]
    /\ rename = NoRename
    /\ before = Snapshot
    /\ NothingDerived
    /\ maintenance_logs = NoDocuments

\* the single update_one of insert_new_weather_station_reading
WriterAppend(w) ==
    /\ writers[w].pc = "start"
    /\ writers[w].handler = "insert_new_weather_station_reading"
    /\ insert_new_weather_station_reading_london(document_id,
                                                 writers[w].reading[1])
    /\ writers' = [writers EXCEPT ![w].pc = "done"]
    /\ UNCHANGED <<document_id, rename, before>>
    /\ UNCHANGED <<derived, maintenance_logs>>

\* result = mongo_handler.aggregate(...): the read of the recompute
WriterAggregate(w) ==
    /\ writers[w].pc = "start"
    /\ writers[w].handler = "use_aggregation_pipeline_to_compute_a_day_summary"
    /\ writers' = [writers EXCEPT
                      ![w].pc = "aggregated",
                      ![w].result =
                          Some(aggregate_day_summary(weather_reports, document_id))]
    /\ UNCHANGED <<weather_reports, weather_stations, users, log,
                   document_id, rename, before>>
    /\ UNCHANGED <<derived, maintenance_logs>>

\* if result: ... update_one: the write of the recompute
WriterWriteDaySummary(w) ==
    /\ writers[w].pc = "aggregated"
    /\ write_day_summary(document_id, writers[w].result[1])
    /\ writers' = [writers EXCEPT ![w].pc = "done"]
    /\ UNCHANGED <<document_id, rename, before>>
    /\ UNCHANGED <<derived, maintenance_logs>>

NextRace ==
    \E w \in Writers :
        \/ WriterAppend(w)
        \/ WriterAggregate(w)
        \/ WriterWriteDaySummary(w)

SpecRace == InitRace /\ [][NextRace]_vars

(***************************************************************************)
(* SpecRename: rename_a_weather_station_owner, one store call at a time.   *)
(* The sequence renames the owner in weather_reports, then in              *)
(* weather_stations, then in users; the client can stop after the first or *)
(* the second call (a crash), and a new sequence can start afterwards.     *)
(* before holds the collections as they were when the sequence started.    *)
(***************************************************************************)
\* a report rename that stamps the reports and leaves owner.name alone
RenameReportsUpdateWithoutName(new_name, last_modified) ==
    [push |-> NoFields, inc |-> [version |-> 1],
     set |-> [last_modified |-> last_modified]]

\* a report rename that writes the name and the stamp and leaves version alone
RenameReportsUpdateWithoutInc(new_name, last_modified) ==
    [push |-> NoFields, inc |-> NoFields,
     set |-> ("owner.name" :> new_name @@ "last_modified" :> last_modified)]

\* the update document of rename_weather_reports_owner
RenameReportsUpdate(new_name, last_modified) ==
    [push |-> NoFields, inc |-> [version |-> 1],
     set |-> ("owner.name" :> new_name @@ "last_modified" :> last_modified)]

\* the update document of rename_weather_station_owner
RenameStationsUpdate(new_name) ==
    [push |-> NoFields, inc |-> NoFields, set |-> ("owner.name" :> new_name)]

\* the update document of update_institution_name
InstitutionNameUpdate(new_name) ==
    [push |-> NoFields, inc |-> NoFields, set |-> [institution |-> new_name]]

OwnerFilter(user_id) == [path |-> "owner.user_id", value |-> user_id]

\* CRUD_tests.rename_weather_reports_owner: one update_many
rename_weather_reports_owner(user_id, new_name, last_modified) ==
    LET filter == OwnerFilter(user_id)
        update == RenameReportsUpdate(new_name, last_modified)
        after == update_many(weather_reports, filter, update)
    IN  /\ weather_reports' = after
        /\ log' = LogEntry("rename_weather_reports_owner", filter, 0,
                           Some(update), modified_count(weather_reports, after))
        /\ UNCHANGED <<weather_stations, users>>

\* CRUD_tests.rename_weather_station_owner: one update_many
rename_weather_station_owner(user_id, new_name) ==
    LET filter == OwnerFilter(user_id)
        update == RenameStationsUpdate(new_name)
        after == update_many(weather_stations, filter, update)
    IN  /\ weather_stations' = after
        /\ log' = LogEntry("rename_weather_station_owner", filter, 0,
                           Some(update), modified_count(weather_stations, after))
        /\ UNCHANGED <<weather_reports, users>>

\* CRUD_tests.update_institution_name: one update_one on users
update_institution_name(user_id, new_name) ==
    LET filter == IdFilter(user_id)
        update == InstitutionNameUpdate(new_name)
        after == update_one(users, filter, update)
    IN  /\ users' = after
        /\ log' = LogEntry("update_institution_name", filter, 0,
                           Some(update), modified_count(users, after))
        /\ UNCHANGED <<weather_reports, weather_stations>>

\* CRUD_tests.get_distinct_owner_names: collection.distinct("owner.name")
get_distinct_owner_names(coll) ==
    {coll[id]["owner"].name : id \in {k \in DOMAIN coll : "owner" \in DOMAIN coll[k]}}

\* a rename sequence that updates the User document first
rename_user_first(call, user_id, new_name, modification_date) ==
    CASE call = 1 -> update_institution_name(user_id, new_name)
      [] call = 2 ->
            rename_weather_reports_owner(user_id, new_name, modification_date)
      [] OTHER -> rename_weather_station_owner(user_id, new_name)

\* CRUD_tests.rename_a_weather_station_owner: its store calls, in order
rename_a_weather_station_owner(call, user_id, new_name, modification_date) ==
    CASE call = 1 ->
            rename_weather_reports_owner(user_id, new_name, modification_date)
      [] call = 2 -> rename_weather_station_owner(user_id, new_name)
      [] OTHER -> update_institution_name(user_id, new_name)

\* DateHelper.get_current_time_with_fixed_day: the time of day of now on
\* the day of dt
get_current_time_with_fixed_day(dt, now) == dt - (dt % 86400) + (now % 86400)

\* 2025-05-01 00:00, the fixed day of rename_a_weather_station_owner
RenameDay == 21 * 86400

\* the clock readings of the runs: 09:30:00 and 17:45:10 of some later day
Clock == {30 * 86400 + 9 * 3600 + 30 * 60,
          31 * 86400 + 17 * 3600 + 45 * 60 + 10}

\* the users a run renames: an institution, a weather watcher with a station
\* and a weather watcher with no station, who owns a report of observations
OwnerIds == {"camUni", "ps2004", "sp_hawk"}

OwnerNames == {"Cambridge University", "Science Dept. Cambridge University"}

RenameReports ==
    (1 :> CambridgeReport(-86400) @@ 2 :> IpswichReport(-86400)
       @@ 3 :> CambridgeReport(-2 * 86400) @@ 4 :> manual_weather_report_2)

InitRename ==
    /\ weather_reports = RenameReports
    /\ weather_stations = ImportedStations
    /\ users = ImportedUsers
    /\ log = NoLog
    /\ document_id = 1
    /\ writers = NoWriters
    /\ rename \in {[NoRename EXCEPT !.user_id = user_id] : user_id \in OwnerIds}
    /\ before = NoSnapshot
    /\ NothingDerived
    /\ maintenance_logs = NoDocuments

\* the sequence begins for the owner of this run: modification_date is
\* taken from the clock
StartRename(new_name, now) ==
    /\ ~rename.running
    /\ \A id \in Matching(weather_reports, OwnerFilter(rename.user_id)) :
          BelowMaxVersion(id)
    /\ rename' = [step |-> 0, running |-> TRUE, crashed |-> FALSE,
                  user_id |-> rename.user_id, new_name |-> new_name,
                  modification_date |->
                      get_current_time_with_fixed_day(RenameDay, now)]
    /\ before' = Snapshot
    /\ log' = NoLog
    /\ UNCHANGED <<weather_reports, weather_stations, users, document_id,
                   writers>>
    /\ UNCHANGED <<derived, maintenance_logs>>

\* the first store call of the sequence
RenameWeatherReports ==
    /\ rename.running
    /\ rename.step = 0
    /\ rename_a_weather_station_owner(1, rename.user_id, rename.new_name,
                                      rename.modification_date)
    /\ rename' = [rename EXCEPT !.step = 1]
    /\ UNCHANGED <<document_id, writers, before>>
    /\ UNCHANGED <<derived, maintenance_logs>>

\* the second store call of the sequence
RenameWeatherStations ==
    /\ rename.running
    /\ rename.step = 1
    /\ rename_a_weather_station_owner(2, rename.user_id, rename.new_name,
                                      rename.modification_date)
    /\ rename' = [rename EXCEPT !.step = 2]
    /\ UNCHANGED <<document_id, writers, before>>
    /\ UNCHANGED <<derived, maintenance_logs>>

\* the third store call of the sequence, which ends it
UpdateUser ==
    /\ rename.running
    /\ rename.step = 2
    /\ rename_a_weather_station_owner(3, rename.user_id, rename.new_name,
                                      rename.modification_date)
    /\ rename' = [rename EXCEPT !.step = 3, !.running = FALSE]
    /\ UNCHANGED <<document_id, writers, before>>
    /\ UNCHANGED <<derived, maintenance_logs>>

\* the client stops between two store calls
Crash ==
    /\ rename.running
    /\ rename.step \in {1, 2}
    /\ rename' = [rename EXCEPT !.running = FALSE, !.crashed = TRUE]
    /\ UNCHANGED <<weather_reports, weather_stations, users, log,
                   document_id, writers, before>>
    /\ UNCHANGED <<derived, maintenance_logs>>

NextRename ==
    \/ \E new_name \in OwnerNames, now \in Clock : StartRename(new_name, now)
    \/ RenameWeatherReports
    \/ RenameWeatherStations
    \/ UpdateUser
    \/ Crash

SpecRename == InitRename /\ [][NextRename]_vars

(***************************************************************************)
(* SpecImport: the collections as DatabaseBuilder creates them (empty,     *)
(* with no unique index on the station and the date of a report), filled   *)
(* by OpenMeteoDataImporter.import_data and insert_new_weather_report in   *)
(* any order and any number of times.  A file holds two days.              *)
(***************************************************************************)
\* the _id the store gives a document inserted without one
new_object_id(coll) ==
    IF DOMAIN coll = {} THEN 1
    ELSE 1 + CHOOSE m \in DOMAIN coll : \A k \in DOMAIN coll : k <= m

\* collection.insert_one of a document that has no _id: always a new document
insert_one(coll, doc) == coll @@ (new_object_id(coll) :> doc)

\* collection.insert_many of documents that have no _id
insert_many(coll, docs) ==
    LET first == new_object_id(coll)
    IN  coll @@ [id \in first .. first + Len(docs) - 1 |-> docs[id - first + 1]]

\* the number of reports of the collection stays within the bound
BelowMaxReports(n) == Cardinality(DOMAIN weather_reports) + n <= MaxReports

(***************************************************************************)
(* The maintenance logs and the technicians who write them.                *)
(***************************************************************************)
\* timedelta(days=180) of get_technician_activity
LookbackDays == 180

\* the technicians collection as populateTechnicians fills it, by _id, with
\* the fields the queries read
technicians ==
    ("T-002" :> [name |-> "Emily Carter", telephone |-> "02079460011"]
       @@ "T-003" :> [name |-> "Liam Turner", telephone |-> "01618504403"]
       @@ "T-006" :> [name |-> "Gary Mitchell", telephone |-> "01134968801"])

\* MaintenanceLogItem.get_maintenance_log_doc
get_maintenance_log_doc(timestamp, station_id, tech_id, report) ==
    [timestamp |-> timestamp, station_id |-> station_id, tech_id |-> tech_id,
     report |-> report]

\* the stations imported here, with what main passes to import_data
ImportedStationIds == {"WS-LON002", "WS-UNI001", "WS-WW1001"}

\* station_name, the location of the file, the owner as the report and the
\* station embed it, and the technicians (none for a private station)
import_arguments(station_id) ==
    CASE station_id = "WS-LON002" ->
            [station_name |-> "London",
             location |-> new_weather_report.location,
             owner_of_report |-> new_weather_report.owner,
             owner_of_station |->
                 institution_subset_for_weather_station("metoff1",
                     "Government", "Met Office", "Mr Simon Jones",
                     "stations@metoffice.gov.uk", "03709000100"),
             technicians |-> Some(<<"T-006", "T-007">>)]
      [] station_id = "WS-UNI001" ->
            [station_name |-> "Cambridge", location |-> CambridgeLocation,
             owner_of_report |-> CambridgeOwnerOfReport,
             owner_of_station |-> CambridgeOwnerOfStation,
             technicians |-> Some(<<"T-006">>)]
      [] OTHER ->
            [station_name |-> "Ipswich", location |-> IpswichLocation,
             owner_of_report |-> weather_watcher_subset("ps2004", "Paul S"),
             owner_of_station |-> weather_watcher_subset("ps2004", "Paul S"),
             technicians |-> Absent]

\* the days of a file, oldest first
CsvDays == <<-2 * 86400, -86400>>

\* a file as load_from_csv sees it: the number of sections the blank lines
\* split it into, the header and the number of values of the station line,
\* and the hourly and daily rows, each with its day and whether it has a
\* value for every column from_csv_data reads
CsvRows(days) == [i \in 1 .. Len(days) |-> [day |-> days[i], complete |-> TRUE]]

CsvFile ==
    [sections |-> 3,
     station_header |-> <<"latitude", "longitude", "elevation">>,
     station_values |-> 3,
     hourly |-> CsvRows(CsvDays), daily |-> CsvRows(CsvDays)]

\* the file, and the file with a section missing, with a short station line,
\* with a short hourly or daily row, with a day that has no daily row
CsvFiles ==
    {CsvFile,
     [CsvFile EXCEPT !.sections = 2],
     [CsvFile EXCEPT !.station_values = 2],
     [CsvFile EXCEPT !.station_values = 1],
     [CsvFile EXCEPT !.hourly[2].complete = FALSE],
     [CsvFile EXCEPT !.daily[1].complete = FALSE],
     [CsvFile EXCEPT !.daily = CsvRows(<<CsvDays[1]>>)]}

\* 2025-04-09, the end_date load_from_csv passes to generate_maintenance_logs;
\* its start_date, 2023-01-01, is brought to MaxLogDays days before the end
LogsEndDate == -86400

\* random.randint(5, 10), hour and minute as drawn here
LogGaps == {5, 10}

LogTimeOfDay == 9 * 3600

RECURSIVE generate_maintenance_logs(_, _, _, _)
\* RandomMaintenanceLogGenerator.generate_maintenance_logs: the lists it can
\* return, one item every 5 to 10 days from start_date to end_date, each by
\* one of the technicians
generate_maintenance_logs(station_id, technician_ids, start_date, end_date) ==
    IF start_date > end_date THEN {<<>>}
    ELSE {<<get_maintenance_log_doc(start_date + LogTimeOfDay, station_id,
                                    technician_ids[t], "Firmware updated.")>>
              \o rest :
            t \in 1 .. Len(technician_ids),
            rest \in UNION {generate_maintenance_logs(station_id,
                                technician_ids, start_date + gap * 86400,
                                end_date) : gap \in LogGaps}}

\* MaintenanceLogItem.get_subset_for_weather_station
maintenance_subset_for_weather_station(item) ==
    [timestamp |-> item.timestamp, tech_id |-> item.tech_id,
     report |-> item.report]

\* the error load_from_csv stops with, "" when it returns
load_error(file) ==
    LET columns == {file.station_header[i] :
                       i \in 1 .. (IF file.station_values
                                        < Len(file.station_header)
                                   THEN file.station_values
                                   ELSE Len(file.station_header))}
        hourly_days == {file.hourly[i].day : i \in 1 .. Len(file.hourly)}
        daily_days == {file.daily[i].day : i \in 1 .. Len(file.daily)}
    IN  IF file.sections < 1 \/ file.station_values < 1 THEN "IndexError"
        ELSE IF ~({"latitude", "longitude"} \subseteq columns) THEN "KeyError"
        ELSE IF file.sections < 2 THEN "IndexError"
        ELSE IF \E i \in 1 .. Len(file.hourly) : ~file.hourly[i].complete
             THEN "TypeError"
        ELSE IF file.sections < 3 THEN "IndexError"
        ELSE IF \E i \in 1 .. Len(file.daily) : ~file.daily[i].complete
             THEN "TypeError"
        ELSE IF ~(hourly_days \subseteq daily_days) THEN "AttributeError"
        ELSE ""

\* OpenMeteoWeatherDataLoader.load_from_csv of a file it can read: what it
\* can return, the report documents (one for each day that has readings),
\* the document of the station and the maintenance logs, Absent when the
\* station has no technicians
load_from_csv(station_id, file) ==
    LET args == import_arguments(station_id)
        days == GroupKeys([i \in 1 .. Len(file.hourly) |->
                              [_id |-> file.hourly[i].day]], {})
        reports == [i \in 1 .. Len(days) |->
                       imported_weather_report(days[i],
                           station_subset_for_weather_report(station_id,
                               args.station_name),
                           args.owner_of_report, args.location)]
        station == weather_station_doc(args.station_name, args.location,
                                       args.owner_of_station)
    IN  IF args.technicians = Absent
        THEN {[weather_reports |-> reports, weather_station |-> station,
               maintenance_logs |-> Absent]}
        ELSE {[weather_reports |-> reports,
               weather_station |->
                   station @@ [latest_maintenance |->
                       maintenance_subset_for_weather_station(
                           logs[Len(logs)])],
               maintenance_logs |-> Some(logs)] :
                logs \in generate_maintenance_logs(station_id,
                             args.technicians[1],
                             LogsEndDate - MaxLogDays * 86400, LogsEndDate)}

\* import_data of a file load_from_csv stops on: the error is raised before
\* the first insert
import_data_of_unreadable(station_id, file) ==
    /\ load_error(file) # ""
    /\ log' = LogEntry("import_data", [station_id |-> station_id,
                                       file |-> file],
                       0, Some(load_error(file)), 0)
    /\ UNCHANGED <<weather_reports, weather_stations, maintenance_logs, users,
                   document_id, writers, rename, before, derived>>

\* OpenMeteoDataImporter.import_data: load_from_csv, then insert_many of the
\* reports, then insert_one of the station under _id = station_id, which
\* raises DuplicateKeyError when the station is already there, then
\* insert_many of the maintenance logs when there are any
import_data(station_id, file) ==
    \/ import_data_of_unreadable(station_id, file)
    \/ /\ load_error(file) = ""
       /\ \E loaded \in load_from_csv(station_id, file) :
          \E duplicate \in {station_id \in DOMAIN weather_stations} :
            /\ BelowMaxReports(Len(loaded.weather_reports))
            /\ weather_reports' =
                   insert_many(weather_reports, loaded.weather_reports)
            /\ weather_stations' =
                   IF duplicate THEN weather_stations
                   ELSE weather_stations
                            @@ (station_id :> loaded.weather_station)
            /\ maintenance_logs' =
                   IF duplicate \/ loaded.maintenance_logs = Absent
                   THEN maintenance_logs
                   ELSE insert_many(maintenance_logs,
                                    loaded.maintenance_logs[1])
            /\ log' = LogEntry("import_data", [station_id |-> station_id,
                                               file |-> file],
                               0,
                               Some(IF duplicate THEN "DuplicateKeyError"
                                    ELSE ""),
                               0)
            /\ UNCHANGED <<users, document_id, writers, rename, before,
                           derived>>

\* insert_new_weather_report: insert_one of the London report of 10th April
\* 2025; the _id the store gave is returned
insert_new_weather_report ==
    /\ BelowMaxReports(1)
    /\ weather_reports' = insert_one(weather_reports, new_weather_report)
    /\ document_id' = new_object_id(weather_reports)
    /\ log' = LogEntry("insert_new_weather_report", NoFields, 0, Absent, 0)
    /\ UNCHANGED <<weather_stations, users, writers, rename, before, derived,
                    maintenance_logs>>

InitImport ==
    /\ weather_reports = NoDocuments
    /\ weather_stations = NoDocuments
    /\ users = ImportedUsers
    /\ log = NoLog
    /\ document_id = 0
    /\ writers = NoWriters
    /\ rename = NoRename
    /\ before = NoSnapshot
    /\ NothingDerived
    /\ maintenance_logs = NoDocuments

NextImport ==
    \/ \E station_id \in ImportedStationIds, file \in CsvFiles :
          import_data(station_id, file)
    \/ insert_new_weather_report

SpecImport == InitImport /\ [][NextImport]_vars

(***************************************************************************)
(* Dates, and what aggregation stages and query filters make of a field    *)
(* that is missing or null.                                                *)
(***************************************************************************)
\* datetime(2025, 4, 10, 0, 0), the zero of the time stamps, in days from
\* 1970-01-01
EpochDay == 20188

\* the calendar date of a time stamp ($year, $month, $dateToString)
civil_from_timestamp(ts) ==
    LET z == ts \div 86400 + EpochDay + 719468
        era == z \div 146097
        doe == z - era * 146097
        yoe == (doe - doe \div 1460 + doe \div 36524 - doe \div 146096) \div 365
        doy == doe - (365 * yoe + yoe \div 4 - yoe \div 100)
        mp == (5 * doy + 2) \div 153
        m == IF mp < 10 THEN mp + 3 ELSE mp - 9
    IN  [year |-> yoe + era * 400 + (IF m <= 2 THEN 1 ELSE 0), month |-> m,
         day |-> doy - (153 * mp + 2) \div 5 + 1]

\* $hour of a time stamp
hour_of(ts) == (ts % 86400) \div 3600

RECURSIVE sort_orders(_, _)
\* $sort: the orders in which it can give the documents ids, the largest
\* key first; the order of documents with equal keys is not determined
sort_orders(ids, key) ==
    IF ids = {} THEN {<<>>}
    ELSE UNION {{<<first>> \o rest : rest \in sort_orders(ids \ {first}, key)} :
                   first \in {id \in ids : \A other \in ids :
                                               key[id] >= key[other]}}

\* the documents of a collection in the order a pipeline reads them
Scan(coll) ==
    LET RECURSIVE From(_)
        From(ids) ==
            IF ids = {} THEN <<>>
            ELSE LET m == CHOOSE m \in ids : \A k \in ids : m <= k
                 IN  <<WithId(m, coll[m])>> \o From(ids \ {m})
    IN  From(DOMAIN coll)

\* "$day_summary.<field>": Absent when the report has no day summary
SummaryField(doc, field) ==
    IF "day_summary" \in DOMAIN doc /\ field \in DOMAIN doc["day_summary"]
    THEN Some(doc["day_summary"][field])
    ELSE Absent

\* {field: {"$lt": n}} of a query filter: a missing field does not match
QueryLt(v, n) == v # Absent /\ v[1] < n

\* {"$lt": [v, n]} of an aggregation expression: null and missing sort
\* before every number
ExprLt(v, n) == v = Absent \/ v[1] < n

\* {field: {"$gt": n}} of a query filter and {"$gt": [v, n]} of an
\* aggregation expression: a missing field is not above a number in either
FieldGt(v, n) == v # Absent /\ v[1] > n

(***************************************************************************)
(* The weather extremes report.  weather_extremes is the list of its       *)
(* documents; $merge replaces the document with the _id of a result and    *)
(* appends a result whose _id is new.                                      *)
(***************************************************************************)
Null == "null"

\* the thresholds of create_weather_extremes_report: -5, 0 and 28 degrees in
\* tenths, 12 m/s in hundredths, 15 mm in tenths
VeryColdMatch == -50

VeryCold == 0

VeryHot == 280

StrongWinds == 1200

HeavyRain == 150

\* the $match stage of create_weather_extremes_report
is_extreme(doc, station_id) ==
    /\ "station" \in DOMAIN doc
    /\ doc["station"].station_id = station_id
    /\ \/ QueryLt(SummaryField(doc, "temp_min"), VeryColdMatch)
       \/ FieldGt(SummaryField(doc, "temp_max"), VeryHot)
       \/ FieldGt(SummaryField(doc, "wind_speed_max"), StrongWinds)
       \/ FieldGt(SummaryField(doc, "precip_sum"), HeavyRain)

\* an extreme_temp that looks at the heat first
extreme_temp_hot_first(doc) ==
    IF FieldGt(SummaryField(doc, "temp_max"), VeryHot) THEN "Very Hot"
    ELSE IF ExprLt(SummaryField(doc, "temp_min"), VeryCold) THEN "Very Cold"
    ELSE Null

\* the $cond of extreme_temp
extreme_temp(doc) ==
    IF ExprLt(SummaryField(doc, "temp_min"), VeryCold) THEN "Very Cold"
    ELSE IF FieldGt(SummaryField(doc, "temp_max"), VeryHot) THEN "Very Hot"
    ELSE Null

\* an extreme_weather whose thresholds are met by the threshold value itself
extreme_weather_inclusive(doc) ==
    IF /\ ~ExprLt(SummaryField(doc, "wind_speed_max"), StrongWinds)
       /\ ~ExprLt(SummaryField(doc, "precip_sum"), HeavyRain)
    THEN "Storm"
    ELSE IF ~ExprLt(SummaryField(doc, "wind_speed_max"), StrongWinds)
    THEN "Strong Winds"
    ELSE IF ~ExprLt(SummaryField(doc, "precip_sum"), HeavyRain)
    THEN "Heavy Rain"
    ELSE Null

\* the $cond of extreme_weather
extreme_weather(doc) ==
    IF /\ FieldGt(SummaryField(doc, "wind_speed_max"), StrongWinds)
       /\ FieldGt(SummaryField(doc, "precip_sum"), HeavyRain)
    THEN "Storm"
    ELSE IF FieldGt(SummaryField(doc, "wind_speed_max"), StrongWinds)
    THEN "Strong Winds"
    ELSE IF FieldGt(SummaryField(doc, "precip_sum"), HeavyRain)
    THEN "Heavy Rain"
    ELSE Null

\* the $addFields and $project stages on one matched report; the _id is
\* the station id, "-" and the date as %Y%m%d
extremes_doc(doc) ==
    LET c == civil_from_timestamp(doc["date"])
        projected ==
            [_id |-> <<doc["station"].station_id, "-",
                       c.year * 10000 + c.month * 100 + c.day>>,
             date |-> doc["date"],
             station_id |-> doc["station"].station_id,
             station_name |-> doc["station"].name,
             extreme_temp |-> extreme_temp(doc),
             extreme_weather |-> extreme_weather(doc)]
        copied == {f \in {"temp_min", "temp_max", "wind_speed_max", "precip_sum"} :
                      SummaryField(doc, f) # Absent}
    IN  projected @@ [f \in copied |-> doc["day_summary"][f]]

\* the pipeline of create_weather_extremes_report before its $merge
extremes_pipeline(coll, station_id) ==
    LET docs == Scan(coll)
        matched == SelectSeq(docs, LAMBDA d : is_extreme(d, station_id))
    IN  [i \in 1 .. Len(matched) |-> extremes_doc(matched[i])]

\* a $merge that inserts every result, matched or not
merge_insert_only(into, docs) == into \o docs

\* {"$merge": {"on": "_id", "whenMatched": "replace", "whenNotMatched":
\* "insert"}}
merge(into, docs) ==
    LET RECURSIVE Into(_, _)
        Into(target, rest) ==
            IF rest = <<>> THEN target
            ELSE LET d == Head(rest)
                     hit == {i \in 1 .. Len(target) : target[i]._id = d._id}
                 IN  Into(IF hit = {} THEN Append(target, d)
                          ELSE [i \in 1 .. Len(target) |->
                                   IF i \in hit THEN d ELSE target[i]],
                          Tail(rest))
    IN  Into(into, docs)

ExtremesLog == "create_weather_extremes_report"

\* create_weather_extremes_report
create_weather_extremes_report(station_id) ==
    /\ weather_extremes' =
           merge(weather_extremes, extremes_pipeline(weather_reports, station_id))
    /\ log' = LogEntry(ExtremesLog,
                       [path |-> "station.station_id", value |-> station_id],
                       0, Absent, 0)
    /\ UNCHANGED <<weather_reports, weather_stations, users, document_id,
                   writers, rename, before, weather_report_storage_report,
                   weather_balloon_reports, query_result,
                    maintenance_logs>>

\* the filter of delete_weather_reports and what it matches: the reports of
\* the station dated from start ($gte) to end ($lte)
DeleteFilter(station_id, start, end) ==
    [path |-> "station.station_id", value |-> station_id,
     gte |-> start, lte |-> end]

MatchingDeleteFilter(coll, filter) ==
    {id \in DOMAIN coll :
        /\ "station" \in DOMAIN coll[id]
        /\ coll[id]["station"].station_id = filter.value
        /\ coll[id]["date"] >= filter.gte
        /\ coll[id]["date"] <= filter.lte}

\* count_weather_reports_for_station: count_documents on the station id
count_weather_reports_for_station(coll, station_id) ==
    Cardinality({id \in DOMAIN coll :
                    /\ "station" \in DOMAIN coll[id]
                    /\ coll[id]["station"].station_id = station_id})

\* a deletion that stops before the end date
delete_weather_reports_before_end(station_id, start, end) ==
    LET filter == DeleteFilter(station_id, start, end)
        deleted == {id \in MatchingDeleteFilter(weather_reports, filter) :
                       weather_reports[id]["date"] < end}
    IN  /\ weather_reports' =
               [id \in DOMAIN weather_reports \ deleted |-> weather_reports[id]]
        /\ log' = LogEntry("delete_weather_reports", filter, 0, Absent,
                           Cardinality(deleted))
        /\ UNCHANGED <<weather_stations, users, document_id, writers, rename,
                       before, derived,
                    maintenance_logs>>

\* delete_weather_reports: delete_many of the reports of the station dated
\* from start to end inclusive; the log holds the filter and deleted_count
delete_weather_reports(station_id, start, end) ==
    LET filter == DeleteFilter(station_id, start, end)
        deleted == MatchingDeleteFilter(weather_reports, filter)
    IN  /\ weather_reports' =
               [id \in DOMAIN weather_reports \ deleted |-> weather_reports[id]]
        /\ log' = LogEntry("delete_weather_reports", filter, 0, Absent,
                           Cardinality(deleted))
        /\ UNCHANGED <<weather_stations, users, document_id, writers, rename,
                       before, derived,
                    maintenance_logs>>

(***************************************************************************)
(* SpecExtremes: two days of Cambridge and one of Ipswich.  The day        *)
(* summary of report 1 is any combination of values at and around the      *)
(* thresholds; report 2 had a hot day and report 3 a storm.  The extremes  *)
(* report is built for either station, reports are deleted, and the day    *)
(* summary of report 1 is recomputed once from its one mild reading.       *)
(***************************************************************************)
SummaryValues ==
    [temp_min : {-60, -50, -10, 0, 41}, temp_max : {133, 280, 290},
     wind_speed_max : {500, 1200, 1300}, precip_sum : {20, 150, 160}]

\* a report with the four values v in its day summary
WithSummary(report, v) ==
    [report EXCEPT !["day_summary"] =
        [f \in DOMAIN csv_day_summary |->
            IF f \in DOMAIN v THEN v[f] ELSE csv_day_summary[f]]]

ExtremesStations == {"WS-UNI001", "WS-WW1001"}

ExtremesDays == {-2 * 86400, -86400}

InitExtremes ==
    /\ \E v \in SummaryValues :
         weather_reports =
            (1 :> WithSummary(CambridgeReport(-2 * 86400), v)
               @@ 2 :> WithSummary(CambridgeReport(-86400),
                                   [temp_max |-> 290])
               @@ 3 :> WithSummary(IpswichReport(-86400),
                                   [wind_speed_max |-> 1300,
                                    precip_sum |-> 160]))
    /\ weather_stations = ImportedStations
    /\ users = ImportedUsers
    /\ log = NoLog
    /\ document_id = 1
    /\ writers = NoWriters
    /\ rename = NoRename
    /\ before = NoSnapshot
    /\ NothingDerived
    /\ maintenance_logs = NoDocuments

\* use_aggregation_pipeline_to_compute_a_day_summary on report 1, once
RecomputeFirstReport ==
    /\ document_id \in DOMAIN weather_reports
    /\ Version(weather_reports[document_id]) = 1
    /\ RecomputeSummary

NextExtremes ==
    \/ \E station_id \in ExtremesStations :
          create_weather_extremes_report(station_id)
    \/ \E station_id \in ExtremesStations, start, end \in ExtremesDays :
          start <= end /\ delete_weather_reports(station_id, start, end)
    \/ RecomputeFirstReport

SpecExtremes == InitExtremes /\ [][NextExtremes]_vars

(***************************************************************************)
(* SpecPages: one balloon launch of station 03743 on 1st April 2025, with  *)
(* readings at heights that may repeat, read page after page by            *)
(* get_weather_balloon_readings_by_page.  query_result is the list of the  *)
(* pages read so far.                                                      *)
(***************************************************************************)
\* RadiosondeReading.get_doc_for_weather_balloon_report for reading number i
\* of the launch, the location, pressure and wind left out
radiosonde_reading(i, gpheight) ==
    [timestamp |-> -9 * 86400 + 8 * 3600 + 10 * i, gpheight |-> gpheight,
     temp |-> 150 - 10 * i, dewpoint |-> 60 - 10 * i]

\* WeatherBalloonReport.get_weather_balloon_report_doc, as
\* RadiosondeDataImporter.import_data builds it
weather_balloon_report(readings) ==
    [launch_date |-> -9 * 86400 + 8 * 3600,
     station |-> [station_id |-> "03743", name |-> "Larkhill",
                  owner |-> institution_subset_for_weather_station("metoff1",
                      "Government", "Met Office", "Mr Simon Jones",
                      "stations@metoffice.gov.uk", "03709000100")],
     version |-> 1,
     last_modified |-> -9 * 86400 + 8 * 3600 + 10 * Len(readings),
     radiosonde |-> [serial |-> "W1234567", software |-> "1.0"],
     readings |-> readings]

\* the orders {"$sort": {"readings.gpheight": 1}} can give the documents:
\* ascending by height, documents of equal height in any order
sorted_by_gpheight(docs) ==
    {[i \in 1 .. Len(docs) |-> docs[order[i]]] :
        order \in sort_orders(1 .. Len(docs),
                     [i \in 1 .. Len(docs) |-> -docs[i]["readings"].gpheight])}

\* get_weather_balloon_readings_by_page: $match, $unwind, $sort, $skip,
\* $limit and $project; the page is added to the pages read
get_weather_balloon_readings_by_page(station_id, launch_date, page, page_size) ==
    LET skip == (page - 1) * page_size
        matched == SelectSeq(Scan(weather_balloon_reports),
                       LAMBDA d : /\ d["station"].station_id = station_id
                                  /\ d["launch_date"] >= launch_date
                                  /\ d["launch_date"] < launch_date + 86400)
        last(n) == IF skip + page_size < n THEN skip + page_size ELSE n
    IN  \E sorted \in sorted_by_gpheight(Unwind(matched)) :
            LET results == SubSeq(sorted, skip + 1, last(Len(sorted)))
            IN  /\ query_result' =
                       Append(query_result,
                              [i \in 1 .. Len(results) |->
                                  [timestamp |-> results[i]["readings"].timestamp,
                                   gpheight |-> results[i]["readings"].gpheight,
                                   temp |-> results[i]["readings"].temp]])
                /\ log' = LogEntry("get_weather_balloon_readings_by_page",
                                   [page |-> page, page_size |-> page_size],
                                   Len(results), Absent, 0)
                /\ UNCHANGED <<weather_reports, weather_stations, users,
                               document_id, writers, rename, before,
                               weather_extremes, weather_report_storage_report,
                               weather_balloon_reports,
                    maintenance_logs>>

InitPages ==
    /\ \E n \in 1 .. MaxBalloonReadings :
       \E heights \in [1 .. n -> {120, 450, 980}] :
          weather_balloon_reports =
             (1 :> weather_balloon_report(
                      [i \in 1 .. n |-> radiosonde_reading(i, heights[i])]))
    /\ weather_reports = NoDocuments
    /\ weather_stations = NoDocuments
    /\ users = ImportedUsers
    /\ log = NoLog
    /\ document_id = 0
    /\ writers = NoWriters
    /\ rename = NoRename
    /\ before = NoSnapshot
    /\ weather_extremes = NoDocuments
    /\ weather_report_storage_report = NoDocuments
    /\ query_result = NoDocuments
    /\ maintenance_logs = NoDocuments

\* the page size of the pages read so far; any, before the first page
PageSizes ==
    IF query_result = NoDocuments THEN 1 .. MaxPageSize
    ELSE {log.filter[1].page_size}

\* the next page of the launch, for as long as a page is left
ReadNextPage ==
    \E page_size \in PageSizes :
        /\ Len(query_result) * page_size
              < Len(weather_balloon_reports[1]["readings"])
        /\ get_weather_balloon_readings_by_page("03743", -9 * 86400,
               Len(query_result) + 1, page_size)

SpecPages == InitPages /\ [][ReadNextPage]_vars

(***************************************************************************)
(* The read queries over the hourly readings of weather_reports.  A value  *)
(* that can be null is Absent or Some(value).                              *)
(***************************************************************************)
\* {"$round": [num / den, 0]}: to the nearest integer, a half to the even one
round_half_even(num, den) ==
    LET q == num \div den
        r == num - q * den
    IN  IF 2 * r < den THEN q
        ELSE IF 2 * r > den THEN q + 1
        ELSE IF q % 2 = 0 THEN q ELSE q + 1

\* {"$max": {"$cond": [{"$eq": ["$reading_hour", hour]}, "$readings.temp",
\* None]}} over the documents of a group: null values are ignored, and the
\* result is null when no reading of the group was made at that hour
max_temp_at(docs, hour) ==
    LET at == SelectSeq(docs, LAMBDA d : hour_of(d["readings"].timestamp) = hour)
    IN  IF at = <<>> THEN Absent ELSE Some(SeqMax(ReadingField(at, "temp")))

\* {"$lt": [a, b]} of two values that can be null: null sorts before every
\* number
expr_lt(a, b) == b # Absent /\ (a = Absent \/ a[1] < b[1])

\* the last $match of create_cooler_afternoons_report
is_cooler_afternoon(row) == expr_lt(row.temp_3pm, row.temp_9am)

\* create_cooler_afternoons_report: the pipeline, and its rows as logged
create_cooler_afternoons_report(station_id, search_year) ==
    LET matched == SelectSeq(Scan(weather_reports),
                       LAMBDA d : /\ "station" \in DOMAIN d
                                  /\ d["station"].station_id = station_id
                                  /\ civil_from_timestamp(d["date"]).year
                                        = search_year)
        unwound == Unwind(matched)
        kept == SelectSeq(unwound,
                    LAMBDA d : hour_of(d["readings"].timestamp) \in {9, 15})
        keyed == [i \in 1 .. Len(kept) |-> [kept[i] EXCEPT !["_id"] = kept[i]["date"]]]
        keys == GroupKeys(keyed, {})
        group(key) == SelectSeq(keyed, LAMBDA d : d["_id"] = key)
        fahrenheit(t) == IF t = Absent THEN Absent
                         ELSE Some(round_half_even(18 * t[1] + 3200, 10))
        row(key) ==
            LET t9 == max_temp_at(group(key), 9)
                t15 == max_temp_at(group(key), 15)
                both == t9 # Absent /\ t15 # Absent
            IN  [_id |-> key,
                 station_id |-> group(key)[1]["station"].station_id,
                 station_name |-> group(key)[1]["station"].name,
                 temp_9am |-> t9, temp_3pm |-> t15,
                 temp_diff |-> IF both THEN Some(t15[1] - t9[1]) ELSE Absent,
                 temp_9am_f |-> fahrenheit(t9), temp_3pm_f |-> fahrenheit(t15),
                 temp_diff_f |->
                     IF both THEN Some(round_half_even(18 * (t15[1] - t9[1]), 10))
                     ELSE Absent]
        rows == [i \in 1 .. Len(keys) |-> row(keys[i])]
        results == SelectSeq(rows, is_cooler_afternoon)
    IN  /\ query_result' = results
        /\ log' = LogEntry("create_cooler_afternoons_report",
                           [station_id |-> station_id, search_year |-> search_year],
                           Len(results), Absent, 0)
        /\ UNCHANGED <<weather_reports, weather_stations, users, document_id,
                       writers, rename, before, weather_extremes,
                       weather_report_storage_report, weather_balloon_reports,
                    maintenance_logs>>

\* a time range that takes in the end hour
in_time_range_closed(hour, start_hour, end_hour) ==
    hour >= start_hour /\ hour <= end_hour

\* {"hour": {"$gte": start_hour, "$lt": end_hour}}
in_time_range(hour, start_hour, end_hour) == hour >= start_hour /\ hour < end_hour

\* calculate_average_temperature_time_range: the pipeline, and its rows as
\* logged, latest day first
calculate_average_temperature_time_range(station_id, start_hour, end_hour) ==
    LET matched == SelectSeq(Scan(weather_reports),
                       LAMBDA d : /\ "station" \in DOMAIN d
                                  /\ d["station"].station_id = station_id)
        unwound == Unwind(matched)
        kept == SelectSeq(unwound,
                    LAMBDA d : in_time_range(hour_of(d["readings"].timestamp),
                                             start_hour, end_hour))
        keyed == [i \in 1 .. Len(kept) |->
                     [kept[i] EXCEPT !["_id"] =
                         [date |-> civil_from_timestamp(kept[i]["date"])]]]
        keys == GroupKeys(keyed, {})
        group(key) == SelectSeq(keyed, LAMBDA d : d["_id"] = key)
        row(key) ==
            [_id |-> key,
             station_name |-> group(key)[1]["station"].name,
             avg_temperature |-> SeqAvg(ReadingField(group(key), "temp")),
             reading_count |-> Len(group(key))]
        day_number(key) ==
            key.date.year * 10000 + key.date.month * 100 + key.date.day
        later(key) == {k \in {keys[i] : i \in 1 .. Len(keys)} :
                          day_number(k) > day_number(key)}
        results == [i \in 1 .. Len(keys) |->
                       row(CHOOSE k \in {keys[j] : j \in 1 .. Len(keys)} :
                               Cardinality(later(k)) = i - 1)]
    IN  /\ query_result' = results
        /\ log' = LogEntry("calculate_average_temperature_time_range",
                           [station_id |-> station_id, start_hour |-> start_hour,
                            end_hour |-> end_hour],
                           Len(results), Absent, 0)
        /\ UNCHANGED <<weather_reports, weather_stations, users, document_id,
                       writers, rename, before, weather_extremes,
                       weather_report_storage_report, weather_balloon_reports,
                    maintenance_logs>>

(***************************************************************************)
(* SpecQueries: the read queries on a database of four reports.  Report 1  *)
(* is a day of Cambridge in 2025 that has a reading, or none, at each of   *)
(* 09:00, 12:00 and 15:00; report 2 a day of Cambridge in 2024 and report  *)
(* 3 a day of Ipswich, both cooler at 15:00 than at 09:00; report 4 a      *)
(* report of manual observations.                                          *)
(***************************************************************************)
\* an hourly reading of a file, made at hour with temperature temp
hourly_reading(date, hour, temp) ==
    [csv_reading(date) EXCEPT !.timestamp = date + hour * 3600, !.temp = temp]

\* a report with the given readings
WithReadings(report, readings) == [report EXCEPT !["readings"] = readings]

\* the readings of a day: at each of the hours, none or one of either
\* temperature, in the order of the hours
DayReadings(date) ==
    LET at(hour) == {<<>>} \cup {<<hourly_reading(date, hour, temp)>> :
                                    temp \in {80, 100}}
    IN  {r9 \o r12 \o r15 : r9 \in at(9), r12 \in at(12), r15 \in at(15)}

CoolerAfternoon(date) ==
    <<hourly_reading(date, 9, 100), hourly_reading(date, 15, 80)>>

InitQueries ==
    /\ \E readings \in DayReadings(-86400) :
          weather_reports =
             (1 :> WithReadings(CambridgeReport(-86400), readings)
                @@ 2 :> WithReadings(CambridgeReport(-400 * 86400),
                                     CoolerAfternoon(-400 * 86400))
                @@ 3 :> WithReadings(IpswichReport(-86400),
                                     CoolerAfternoon(-86400))
                @@ 4 :> manual_weather_report)
    /\ weather_stations = ImportedStations
    /\ users = ImportedUsers
    /\ log = NoLog
    /\ document_id = 1
    /\ writers = NoWriters
    /\ rename = NoRename
    /\ before = NoSnapshot
    /\ NothingDerived
    /\ maintenance_logs = NoDocuments

QueryStations == {"WS-UNI001", "WS-WW1001"}

\* the hours a time range starts and ends at
TimeRanges == {<<10, 15>>, <<9, 15>>, <<9, 16>>, <<12, 13>>, <<13, 15>>}

NextQueries ==
    \/ \E station_id \in QueryStations, search_year \in {2024, 2025} :
          create_cooler_afternoons_report(station_id, search_year)
    \/ \E station_id \in QueryStations, range \in TimeRanges :
          calculate_average_temperature_time_range(station_id, range[1], range[2])

SpecQueries == InitQueries /\ [][NextQueries]_vars

(***************************************************************************)
(* The storage reports.  weather_report_storage_report is the list of the  *)
(* documents $out wrote; a size is a number of bytes.                      *)
(***************************************************************************)
\* 1024 * 1024, the bytes of a megabyte
BytesPerMB == 1048576

\* {"$limit": 5}
TopUsersLimit == 5

\* {"$bsonSize": "$$ROOT"}: the bytes of a report, which grow with its
\* readings and observations (an observation embeds its photo)
bson_size(doc) ==
    260 + (IF "station" \in DOMAIN doc THEN 60 ELSE 0)
        + (IF "readings" \in DOMAIN doc THEN 5 + 420 * Len(doc["readings"]) ELSE 0)
        + (IF "day_summary" \in DOMAIN doc THEN 340 ELSE 0)
        + (IF "observations" \in DOMAIN doc
           THEN 5 + (250000 + 30 * Cardinality(DOMAIN doc["observations"][1]))
                       * Len(doc["observations"])
           ELSE 0)

\* a $group of the storage size report that counts every report as one byte
storage_group_counting_documents(key, docs) ==
    [_id |-> key, total_storage_bytes |-> Len(docs), document_count |-> Len(docs)]

\* the accumulators of the $group of the storage size report over the
\* documents of one group
storage_group(key, docs) ==
    [_id |-> key,
     total_storage_bytes |-> SeqSum([i \in 1 .. Len(docs) |-> docs[i]["doc_size_bytes"]]),
     document_count |-> Len(docs)]

\* weather_report_storage_size_report: $addFields, $group by year, month and
\* owner, and $out, which replaces the collection
weather_report_storage_size_report ==
    \E docs \in {Scan(weather_reports)} :
    \E keyed \in {[i \in 1 .. Len(docs) |->
                     [_id |-> [year |-> civil_from_timestamp(docs[i]["date"]).year,
                               month |-> civil_from_timestamp(docs[i]["date"]).month,
                               owner_id |-> docs[i]["owner"].user_id],
                      doc_size_bytes |-> bson_size(Without(docs[i], "_id"))]]} :
    \E keys \in {GroupKeys(keyed, {})} :
        /\ weather_report_storage_report' =
               [i \in 1 .. Len(keys) |->
                   storage_group(keys[i],
                                 SelectSeq(keyed, LAMBDA d : d["_id"] = keys[i]))]
        /\ log' = LogEntry("weather_report_storage_size_report", NoFields,
                           Len(keys), Absent, 0)
        /\ UNCHANGED <<weather_reports, weather_stations, users, document_id,
                       writers, rename, before, weather_extremes,
                       weather_balloon_reports, query_result,
                    maintenance_logs>>

\* get_top_five_users_of_storage: $group by owner, $project the megabytes
\* rounded to two decimals (kept in hundredths), $sort on them, largest
\* first and equal ones in any order, and $limit
get_top_five_users_of_storage ==
    \E keyed \in {[i \in 1 .. Len(weather_report_storage_report) |->
                     [weather_report_storage_report[i] EXCEPT !["_id"] =
                         weather_report_storage_report[i]["_id"].owner_id]]} :
    \E keys \in {GroupKeys(keyed, {})} :
    \E rows \in {[i \in 1 .. Len(keys) |->
                    LET docs == SelectSeq(keyed, LAMBDA d : d["_id"] = keys[i])
                        total_bytes == SeqSum([j \in 1 .. Len(docs) |->
                                          docs[j]["total_storage_bytes"]])
                    IN  [owner_id |-> keys[i],
                         total_storage_MB |->
                             round_half_even(total_bytes * 100, BytesPerMB)]]} :
    \E kept \in {IF Len(rows) < TopUsersLimit THEN Len(rows) ELSE TopUsersLimit} :
        \E order \in sort_orders(1 .. Len(rows),
                          [i \in 1 .. Len(rows) |-> rows[i].total_storage_MB]) :
            /\ query_result' = [i \in 1 .. kept |-> rows[order[i]]]
            /\ log' = LogEntry("get_top_five_users_of_storage", NoFields,
                               kept, Absent, 0)
            /\ UNCHANGED <<weather_reports, weather_stations, users,
                           document_id, writers, rename, before,
                           weather_extremes, weather_report_storage_report,
                           weather_balloon_reports,
                    maintenance_logs>>

(***************************************************************************)
(* SpecStorage: the storage reports on a database that holds all but two,  *)
(* one or none of eight reports of six owners; reports of Cambridge can be *)
(* deleted between the runs.                                               *)
(***************************************************************************)
\* an imported day of an airport station
AirportReport(station_id, station_name, user_id, institution_name) ==
    WithReadings(
        imported_weather_report(-86400,
            station_subset_for_weather_report(station_id, station_name),
            institution_subset_for_weather_report(user_id, "Airport",
                                                  institution_name),
            to_geojson(514700000, -4543000)),
        <<csv_reading(-86400), hourly_reading(-86400, 10, 95)>>)

StorageReports ==
    <<CambridgeReport(-86400), CambridgeReport(-2 * 86400), new_weather_report,
      IpswichReport(-86400), manual_weather_report, manual_weather_report_2,
      AirportReport("WS-AIR001", "Heathrow", "heathAir", "Heathrow Airport"),
      AirportReport("WS-AIR002", "Gatwick", "gatAir", "Gatwick Airport")>>

InitStorage ==
    /\ \E ids \in SUBSET (1 .. Len(StorageReports)) :
          /\ Cardinality(ids) >= Len(StorageReports) - 2
          /\ weather_reports = [id \in ids |-> StorageReports[id]]
    /\ weather_stations = ImportedStations
    /\ users = ImportedUsers
    /\ log = NoLog
    /\ document_id = 1
    /\ writers = NoWriters
    /\ rename = NoRename
    /\ before = NoSnapshot
    /\ NothingDerived
    /\ maintenance_logs = NoDocuments

NextStorage ==
    \/ weather_report_storage_size_report
    \/ get_top_five_users_of_storage
    \/ \E day \in {-2 * 86400, -86400} :
          delete_weather_reports("WS-UNI001", day, day)

SpecStorage == InitStorage /\ [][NextStorage]_vars

(***************************************************************************)
(* The query on the maintenance logs.                                      *)
(***************************************************************************)
\* get_technician_activity run at the time now: $match on the station and on
\* timestamp >= start_date, then $facet: the logs grouped by technician with
\* their number, $lookup of the technician, $sort on the number (largest
\* first, equal ones in any order); and $count of the technicians, which
\* gives no document when there is none.  days goes to the heading only.
get_technician_activity(station_id, days, now) ==
    \E start_date \in {now - LookbackDays * 86400} :
    \E matched \in {SelectSeq(Scan(maintenance_logs),
                        LAMBDA d : /\ d["station_id"] = station_id
                                   /\ d["timestamp"] >= start_date)} :
    \E keys \in {GroupKeys([i \in 1 .. Len(matched) |->
                     [matched[i] EXCEPT !["_id"] = matched[i]["tech_id"]]], {})} :
    \E rows \in {[i \in 1 .. Len(keys) |->
                    LET tech_info == IF keys[i] \in DOMAIN technicians
                                     THEN <<technicians[keys[i]]>> ELSE <<>>
                    IN  [_id |-> keys[i],
                         tech_id |-> keys[i],
                         log_count |->
                             Len(SelectSeq(matched,
                                     LAMBDA d : d["tech_id"] = keys[i])),
                         name |-> [j \in 1 .. Len(tech_info) |->
                                      tech_info[j].name],
                         telephone |-> [j \in 1 .. Len(tech_info) |->
                                           tech_info[j].telephone]]]} :
        \E order \in sort_orders(1 .. Len(rows),
                                 [i \in 1 .. Len(rows) |-> rows[i].log_count]) :
            /\ query_result' =
                  <<[tech_summary |-> [i \in 1 .. Len(rows) |-> rows[order[i]]],
                     total_tech_count |->
                         IF keys = <<>> THEN <<>>
                         ELSE <<[total_techs |-> Len(keys)]>>]>>
            /\ log' = LogEntry("get_technician_activity",
                               [station_id |-> station_id, days |-> days,
                                now |-> now],
                               1, Absent, 0)
            /\ UNCHANGED <<weather_reports, weather_stations, users,
                           document_id, writers, rename, before,
                           weather_extremes, weather_report_storage_report,
                           weather_balloon_reports, maintenance_logs>>

(***************************************************************************)
(* SpecActivity: the maintenance logs of Glasgow and Cambridge, any of six *)
(* entries from 200 days to 5 days old, read by get_technician_activity    *)
(* at noon of 10th April 2025 or the next morning.                         *)
(***************************************************************************)
ActivityLogs ==
    <<get_maintenance_log_doc(-200 * 86400 + 10 * 3600, "WS-GLA001", "T-002",
                              "Firmware updated."),
      get_maintenance_log_doc(-180 * 86400 + 12 * 3600, "WS-GLA001", "T-002",
                              "Cleaned solar panel."),
      get_maintenance_log_doc(-100 * 86400 + 9 * 3600, "WS-GLA001", "T-003",
                              "Replaced wiring."),
      get_maintenance_log_doc(-20 * 86400 + 11 * 3600, "WS-GLA001", "T-002",
                              "Power cycle performed."),
      get_maintenance_log_doc(-5 * 86400 + 15 * 3600, "WS-GLA001", "T-003",
                              "Repaired housing."),
      get_maintenance_log_doc(-10 * 86400 + 9 * 3600, "WS-UNI001", "T-006",
                              "No adjustments required")>>

InitActivity ==
    /\ \E ids \in SUBSET (1 .. Len(ActivityLogs)) :
          maintenance_logs = [id \in ids |-> ActivityLogs[id]]
    /\ weather_reports = ImportedReports
    /\ weather_stations = ImportedStations
    /\ users = ImportedUsers
    /\ log = NoLog
    /\ document_id = 1
    /\ writers = NoWriters
    /\ rename = NoRename
    /\ before = NoSnapshot
    /\ NothingDerived

NextActivity ==
    \E station_id \in {"WS-GLA001", "WS-UNI001"}, days \in {30, 180, 365},
       now \in {12 * 3600, 86400 + 9 * 3600} :
        get_technician_activity(station_id, days, now)

SpecActivity == InitActivity /\ [][NextActivity]_vars

(***************************************************************************)
(* The users collection: populateUsers and validate_user.                  *)
(***************************************************************************)
\* Administrator.get_user_doc
administrator_user_doc(password, name, email) ==
    [password |-> password, user_type |-> "Admin", name |-> encrypt(name),
     email |-> encrypt(email)]

\* EncryptionHelper.verify_password: bcrypt.checkpw hashes the password
\* under the salt of the stored hash and compares
verify_password(plain_password, hashed_password) ==
    hash_password(plain_password, hashed_password[2]) = hashed_password

\* EncryptionHelper.decrypt, under the same fixed key
decrypt(encrypted_text) == encrypted_text[2]

\* the users of TestDataGenerator, of each variant, with their passwords
TestUserIds == {"admin1", "camUni", "metoff1", "ps2004", "sp_hawk"}

TestPasswords ==
    [u \in TestUserIds |-> IF u = "admin1" THEN "Pa$$4422"
                           ELSE IF u = "metoff1" THEN "Pa$$5678"
                           ELSE "Pa$$1234"]

\* bcrypt.gensalt()
Salts == {"salt1", "salt2"}

\* the get_user_doc of each user of TestDataGenerator, hashed under salt[u]
test_user_docs(salt) ==
    [u \in TestUserIds |->
        LET password == hash_password(TestPasswords[u], salt[u])
        IN  CASE u = "admin1" ->
                    administrator_user_doc(password, "John Smith",
                                           "j.smith@weatherdb.com")
              [] u = "camUni" ->
                    institution_user_doc(password, "University",
                        "Cambridge University", "Mr Andy Hopper",
                        "weatherlab@cam.ac.uk", "01223763500")
              [] u = "metoff1" ->
                    institution_user_doc(password, "Government", "Met Office",
                        "Mr Simon Jones", "stations@metoffice.gov.uk",
                        "03709000100")
              [] u = "ps2004" ->
                    weather_watcher_user_doc(password, "Paul S",
                        "Paul Smithers", "pauls@gmail.com")
              [] OTHER ->
                    weather_watcher_user_doc(password, "Simon",
                        "Simon Peters", "peters27@outlook.com")]

\* DatabaseBuilder.populateUsers: insert_one of each user document under its
\* own _id; the first insert of a second run raises DuplicateKeyError
populateUsers(salt) ==
    /\ IF DOMAIN users = {}
       THEN /\ users' = test_user_docs(salt)
            /\ log' = LogEntry("populateUsers", NoFields, 0, Absent, 0)
       ELSE /\ users' = users
            /\ log' = LogEntry("populateUsers: DuplicateKeyError", NoFields, 0,
                               Absent, 0)
    /\ UNCHANGED <<weather_reports, weather_stations, document_id, writers,
                   rename, before, derived, maintenance_logs>>

\* a validate_user that answers "Invalid password" for an unknown user too
validate_user_one_failure(entered_user_id, entered_password) ==
    LET found == entered_user_id \in DOMAIN users
        valid == found /\ verify_password(entered_password,
                                          users[entered_user_id]["password"])
    IN  /\ query_result' =
              <<[valid |-> valid,
                 logged |-> IF valid THEN "Password valid"
                            ELSE "Invalid password",
                 decrypted |->
                     IF valid /\ users[entered_user_id]["user_type"]
                                    \in {"Private", "Admin"}
                     THEN <<decrypt(users[entered_user_id]["name"]),
                            decrypt(users[entered_user_id]["email"])>>
                     ELSE <<>>]>>
        /\ log' = LogEntry("validate_user",
                           [_id |-> entered_user_id,
                            password |-> entered_password],
                           IF found THEN 1 ELSE 0, Absent, 0)
        /\ UNCHANGED <<weather_reports, weather_stations, users, document_id,
                       writers, rename, before, weather_extremes,
                       weather_report_storage_report, weather_balloon_reports,
                       maintenance_logs>>

\* validate_user: find_one on _id, then verify_password against the password
\* of the document found; query_result holds what it returned and logged,
\* with the name and email it decrypts for a private user or administrator
validate_user(entered_user_id, entered_password) ==
    LET found == entered_user_id \in DOMAIN users
        valid == found /\ verify_password(entered_password,
                                          users[entered_user_id]["password"])
    IN  /\ query_result' =
              <<[valid |-> valid,
                 logged |-> IF ~found THEN "User not found"
                            ELSE IF valid THEN "Password valid"
                            ELSE "Invalid password",
                 decrypted |->
                     IF valid /\ users[entered_user_id]["user_type"]
                                    \in {"Private", "Admin"}
                     THEN <<decrypt(users[entered_user_id]["name"]),
                            decrypt(users[entered_user_id]["email"])>>
                     ELSE <<>>]>>
        /\ log' = LogEntry("validate_user",
                           [_id |-> entered_user_id,
                            password |-> entered_password],
                           IF found THEN 1 ELSE 0, Absent, 0)
        /\ UNCHANGED <<weather_reports, weather_stations, users, document_id,
                       writers, rename, before, weather_extremes,
                       weather_report_storage_report, weather_balloon_reports,
                       maintenance_logs>>

(***************************************************************************)
(* Locations with altitude and the import of a balloon launch.  A          *)
(* coordinate is in units of 0.0000001 degree, an altitude in metres, a    *)
(* temperature of a sounding in hundredths of a kelvin or of a degree.     *)
(***************************************************************************)
\* a geometry that puts the latitude first
to_geojson_latitude_first(latitude, longitude, altitude) ==
    [type |-> "Point", coordinates |-> <<latitude, longitude, altitude>>]

\* LocationWithAltitude.to_geojson: longitude, latitude, altitude
to_geojson_with_altitude(latitude, longitude, altitude) ==
    [type |-> "Point", coordinates |-> <<longitude, latitude, altitude>>]

\* LocationWithAltitude.from_geojson: the location, or the ValueError raised
from_geojson(geometry) ==
    IF geometry.type # "Point"
    THEN [raised |-> "ValueError: Only Point geometries are supported"]
    ELSE IF Len(geometry.coordinates) # 3
    THEN [raised |-> "ValueError: Expected 3D coordinates [lon, lat, alt]"]
    ELSE [latitude |-> geometry.coordinates[2],
          longitude |-> geometry.coordinates[1],
          altitude |-> geometry.coordinates[3]]

\* the unix time of 2025-04-10 00:00, the zero of the time stamps
UnixTimeOfZero == EpochDay * 86400

\* 273.15, in hundredths
ZeroCelsius == 27315

\* RadiosondeReading.from_geojson_properties followed by
\* get_doc_for_weather_balloon_report, the pressure and the wind left out:
\* the time from unix time, the temperatures from kelvin to Celsius
from_geojson_properties(properties, location) ==
    [timestamp |-> properties.time - UnixTimeOfZero,
     location |-> to_geojson_with_altitude(location.latitude,
                      location.longitude, location.altitude),
     gpheight |-> properties.gpheight,
     temp |-> properties.temp - ZeroCelsius,
     dewpoint |-> properties.dewpoint - ZeroCelsius]

\* WeatherBalloonReport.get_weather_balloon_report_doc with the station of
\* GroundStation.get_doc_for_weather_balloon_report, owned by the Met Office
get_weather_balloon_report_doc(launch_date, station_id, station_name, location, last_modified, readings) ==
    [launch_date |-> launch_date,
     station |-> [station_id |-> station_id, name |-> station_name,
                  owner |-> institution_subset_for_weather_station("metoff1",
                      "Government", "Met Office", "Mr Simon Jones",
                      "stations@metoffice.gov.uk", "03709000100")],
     location |-> location, version |-> 1, last_modified |-> last_modified,
     radiosonde |-> [serial |-> "W1234567", software |-> "1.0"],
     readings |-> readings]

\* RadiosondeDataImporter.import_data on the features of a file.  The loop
\* keeps the Point features, and from_geojson raises on a Point that has
\* not three coordinates; last_modified is assigned in the loop only, so the
\* construction of the report raises UnboundLocalError when no Point was
\* seen.  Otherwise the report is inserted under a new _id.
radiosonde_import_data(launch_date, ground_station_id, ground_station_name, features) ==
    /\ Cardinality(DOMAIN weather_balloon_reports) < MaxBalloonReports
    /\ \E points \in {SelectSeq(features,
                          LAMBDA f : f.geometry.type = "Point")} :
       \E error \in {IF \E i \in 1 .. Len(points) :
                           "raised" \in DOMAIN from_geojson(points[i].geometry)
                     THEN "ValueError"
                     ELSE IF points = <<>> THEN "UnboundLocalError" ELSE ""} :
       \E readings \in {IF error # "" THEN <<>>
                        ELSE [i \in 1 .. Len(points) |->
                                 from_geojson_properties(points[i].properties,
                                     from_geojson(points[i].geometry))]} :
        /\ weather_balloon_reports' =
              IF error # "" THEN weather_balloon_reports
              ELSE insert_one(weather_balloon_reports,
                       get_weather_balloon_report_doc(launch_date,
                           ground_station_id, ground_station_name,
                           readings[1].location,
                           readings[Len(readings)].timestamp, readings))
        /\ log' = LogEntry("radiosonde_import_data",
                           [launch_date |-> launch_date,
                            station_id |-> ground_station_id,
                            features |-> features],
                           0, Some(error), 0)
        /\ UNCHANGED <<weather_reports, weather_stations, users, document_id,
                       writers, rename, before, weather_extremes,
                       weather_report_storage_report, query_result,
                       maintenance_logs>>

\* what Location.to_geojson gives, read back by from_geojson
read_back_location(latitude, longitude) ==
    /\ query_result' = <<from_geojson(to_geojson(latitude, longitude))>>
    /\ log' = LogEntry("Location.to_geojson",
                       [latitude |-> latitude, longitude |-> longitude],
                       0, Absent, 0)
    /\ UNCHANGED <<weather_reports, weather_stations, users, document_id,
                   writers, rename, before, weather_extremes,
                   weather_report_storage_report, weather_balloon_reports,
                   maintenance_logs>>

\* what LocationWithAltitude.to_geojson gives, read back by from_geojson
read_back_location_with_altitude(latitude, longitude, altitude) ==
    /\ query_result' =
          <<from_geojson(to_geojson_with_altitude(latitude, longitude,
                                                  altitude))>>
    /\ log' = LogEntry("LocationWithAltitude.to_geojson",
                       [latitude |-> latitude, longitude |-> longitude,
                        altitude |-> altitude],
                       0, Absent, 0)
    /\ UNCHANGED <<weather_reports, weather_stations, users, document_id,
                   writers, rename, before, weather_extremes,
                   weather_report_storage_report, weather_balloon_reports,
                   maintenance_logs>>

(***************************************************************************)
(* SpecBalloons: launches of Larkhill imported from files whose features   *)
(* are points in and out of the order of time, lines, and a point without  *)
(* altitude; and locations written as geometry and read back.              *)
(***************************************************************************)
\* the launch of 1st April 2025 at 08:00
LaunchDate == -9 * 86400 + 8 * 3600

\* reading number i of the sounding, 10 seconds after the one before
point_feature(i) ==
    [geometry |-> to_geojson_with_altitude(511000000 + i, -18000000 - i,
                                           100 * i),
     properties |-> [time |-> UnixTimeOfZero + LaunchDate + 10 * i,
                     gpheight |-> 120 * i, temp |-> 28815 - 60 * i,
                     dewpoint |-> 28015 - 70 * i]]

\* the track of the balloon
line_feature ==
    [geometry |-> [type |-> "LineString",
                   coordinates |-> <<<<-18000001, 511000001, 100>>,
                                     <<-18000002, 511000002, 200>>>>],
     properties |-> [time |-> UnixTimeOfZero + LaunchDate, gpheight |-> 0,
                     temp |-> 28815, dewpoint |-> 28015]]

\* a point that has no altitude
flat_point_feature ==
    [point_feature(3) EXCEPT !.geometry = to_geojson(511000003, -18000003)]

FeatureCollections ==
    {<<>>, <<line_feature>>,
     <<point_feature(1), point_feature(2)>>,
     <<point_feature(2), point_feature(1)>>,
     <<line_feature, point_feature(1), line_feature, point_feature(2)>>,
     <<point_feature(2), line_feature>>,
     <<point_feature(1), flat_point_feature>>}

Latitudes == {-900000000, -1, 0, 514938470, 900000000}

Longitudes == {-1800000000, -1630249, 0, 11500000, 1800000000}

Altitudes == {-5, 0, 8848}

InitBalloons ==
    /\ weather_reports = NoDocuments
    /\ weather_stations = NoDocuments
    /\ users = ImportedUsers
    /\ log = NoLog
    /\ document_id = 0
    /\ writers = NoWriters
    /\ rename = NoRename
    /\ before = NoSnapshot
    /\ NothingDerived
    /\ maintenance_logs = NoDocuments

NextBalloons ==
    \/ \E features \in FeatureCollections :
          radiosonde_import_data(LaunchDate, "03743", "Larkhill", features)
    \/ \E latitude \in Latitudes, longitude \in Longitudes :
          read_back_location(latitude, longitude)
    \/ \E latitude \in Latitudes, longitude \in Longitudes,
          altitude \in Altitudes :
            read_back_location_with_altitude(latitude, longitude, altitude)

SpecBalloons == InitBalloons /\ [][NextBalloons]_vars

(***************************************************************************)
(* SpecUsers: the database from empty.  populateUsers inserts the users,   *)
(* the imports bring in stations, their reports and balloon launches,      *)
(* which embed their owner, and validate_user checks a user id and a       *)
(* password.                                                               *)
(***************************************************************************)
\* the salts gensalt gives the users of one run
SaltChoices ==
    {[u \in TestUserIds |-> "salt1"],
     [u \in TestUserIds |-> IF u \in {"admin1", "ps2004"} THEN "salt1"
                            ELSE "salt2"]}

InitUsers ==
    /\ weather_reports = NoDocuments
    /\ weather_stations = NoDocuments
    /\ users = NoDocuments
    /\ log = NoLog
    /\ document_id = 0
    /\ writers = NoWriters
    /\ rename = NoRename
    /\ before = NoSnapshot
    /\ NothingDerived
    /\ maintenance_logs = NoDocuments

NextUsers ==
    \/ \E salt \in SaltChoices : populateUsers(salt)
    \/ \E station_id \in {"WS-UNI001", "WS-WW1001"},
          file \in {CsvFile, [CsvFile EXCEPT !.sections = 2]} :
            import_data(station_id, file)
    \/ \E entered_user_id \in {"admin1", "camUni", "nobody"},
          entered_password \in {"Pa$$1234", "Pa$$4422"} :
            validate_user(entered_user_id, entered_password)
    \/ radiosonde_import_data(LaunchDate, "03743", "Larkhill",
                              <<point_feature(1), point_feature(2)>>)

SpecUsers == InitUsers /\ [][NextUsers]_vars

(***************************************************************************)
(* What the claims speak of.                                               *)
(***************************************************************************)
FieldOf(doc, field) == IF field \in DOMAIN doc THEN Some(doc[field]) ELSE Absent

AppendLog == "insert_new_weather_station_reading"

RecomputeLog == "use_aggregation_pipeline_to_compute_a_day_summary"

\* some AppendReading call is this step
AppendStep == \E reading \in Readings : AppendReading(reading)

\* the readings or the day summary of report id differ after this step
DataChanged(id) ==
    \/ ReadingsOf(weather_reports'[id]) # ReadingsOf(weather_reports[id])
    \/ FieldOf(weather_reports'[id], "day_summary")
           # FieldOf(weather_reports[id], "day_summary")

\* the roll-up of a sequence of readings, stated over the whole sequence
FieldValues(readings, field) == {readings[i][field] : i \in 1..Len(readings)}

Least(values) == CHOOSE v \in values : \A w \in values : v <= w

Greatest(values) == CHOOSE v \in values : \A w \in values : v >= w

Total(readings, field) ==
    LET upTo[i \in 0..Len(readings)] ==
            IF i = 0 THEN 0 ELSE upTo[i - 1] + readings[i][field]
    IN  upTo[Len(readings)]

IsMean(mean, readings, field) ==
    /\ mean.den > 0
    /\ mean.num * Len(readings) = Total(readings, field) * mean.den

IsRollUp(summary, readings) ==
    /\ DOMAIN summary =
          {"temp_mean", "temp_min", "temp_max", "dewpoint_mean",
           "humidity_mean", "humidity_min", "humidity_max", "pressure_mean",
           "pressure_min", "pressure_max", "precip_sum", "cloud_cover_mean",
           "wind_speed_mean", "wind_speed_min", "wind_speed_max", "sunshine"}
    /\ summary.temp_min = Least(FieldValues(readings, "temp"))
    /\ summary.temp_max = Greatest(FieldValues(readings, "temp"))
    /\ summary.humidity_min = Least(FieldValues(readings, "humidity"))
    /\ summary.humidity_max = Greatest(FieldValues(readings, "humidity"))
    /\ summary.pressure_min = Least(FieldValues(readings, "pressure"))
    /\ summary.pressure_max = Greatest(FieldValues(readings, "pressure"))
    /\ summary.wind_speed_min = Least(FieldValues(readings, "wind_speed"))
    /\ summary.wind_speed_max = Greatest(FieldValues(readings, "wind_speed"))
    /\ summary.precip_sum = Total(readings, "precip")
    /\ summary.sunshine = Total(readings, "sunshine")
    /\ IsMean(summary.temp_mean, readings, "temp")
    /\ IsMean(summary.dewpoint_mean, readings, "dewpoint")
    /\ IsMean(summary.humidity_mean, readings, "humidity")
    /\ IsMean(summary.pressure_mean, readings, "pressure")
    /\ IsMean(summary.cloud_cover_mean, readings, "cloud_cover")
    /\ IsMean(summary.wind_speed_mean, readings, "wind_speed")

\* what C1 requires of a call
C1_EveryCallRaisesVersion_Step ==
    (AppendStep \/ RecomputeSummary) /\ document_id \in DOMAIN weather_reports
       => Version(weather_reports'[document_id])
              = Version(weather_reports[document_id]) + 1

(***************************************************************************)
(* C1.  As claimed: every AppendReading call and every RecomputeSummary    *)
(* call raises the version of the report by exactly 1, whatever the state  *)
(* of the report.                                                          *)
(***************************************************************************)
C1_EveryCallRaisesVersion ==
    [][C1_EveryCallRaisesVersion_Step]_vars

\* what C1 requires of a call
C1_CallRaisesVersionUnlessNoReadings_Step ==
    document_id \in DOMAIN weather_reports =>
       /\ AppendStep
             => Version(weather_reports'[document_id])
                    = Version(weather_reports[document_id]) + 1
       /\ RecomputeSummary
             => Version(weather_reports'[document_id])
                    = Version(weather_reports[document_id])
                      + (IF ReadingsOf(weather_reports[document_id]) # <<>>
                         THEN 1 ELSE 0)

(***************************************************************************)
(* C1, amended.  Every AppendReading call raises the version by exactly 1; *)
(* a RecomputeSummary call raises it by exactly 1 on a report that has at  *)
(* least one reading and leaves it as it is on a report that has none.     *)
(***************************************************************************)
C1_CallRaisesVersionUnlessNoReadings ==
    [][C1_CallRaisesVersionUnlessNoReadings_Step]_vars

\* the new London report after one reading and one recomputed summary
C1_Witness ==
    /\ document_id = 2
    /\ log.handler = RecomputeLog
    /\ log.modified = 1
    /\ Len(ReadingsOf(weather_reports[2])) = 1
    /\ Version(weather_reports[2]) = 3

\* what C2 requires of a step
C2_DataChangeRefreshesVersionAndLastModified_Step ==
    \A id \in DOMAIN weather_reports :
       DataChanged(id) =>
           /\ Version(weather_reports'[id]) = Version(weather_reports[id]) + 1
           /\ log'.update # Absent
           /\ "last_modified" \in DOMAIN log'.update[1].set

(***************************************************************************)
(* C2.  As claimed: every step that changes the readings or the day        *)
(* summary of a report raises its version by 1 and writes last_modified    *)
(* in the same update.                                                     *)
(***************************************************************************)
C2_DataChangeRefreshesVersionAndLastModified ==
    [][C2_DataChangeRefreshesVersionAndLastModified_Step]_vars

\* what C3 requires of a step
C3_LastModifiedNeverDecreases_Step ==
    \A id \in DOMAIN weather_reports :
       weather_reports'[id]["last_modified"]
           >= weather_reports[id]["last_modified"]

(***************************************************************************)
(* C3.  As claimed: no AppendReading or RecomputeSummary call lowers       *)
(* last_modified, whatever the time stamp of the reading.                  *)
(***************************************************************************)
C3_LastModifiedNeverDecreases ==
    [][C3_LastModifiedNeverDecreases_Step]_vars

\* what C5 requires of a step
C5_AppendTouchesOnlyTheReport_Step ==
    \A reading \in Readings :
       AppendReading(reading) /\ document_id \in DOMAIN weather_reports =>
           LET old == weather_reports[document_id]
               new == weather_reports'[document_id]
           IN  /\ ReadingsOf(new) = ReadingsOf(old) \o <<reading>>
               /\ new["last_modified"] = reading.timestamp
               /\ \A f \in {"date", "location", "station", "owner",
                            "day_summary", "observations"} :
                      FieldOf(new, f) = FieldOf(old, f)
               /\ DOMAIN weather_reports' = DOMAIN weather_reports
               /\ \A id \in DOMAIN weather_reports \ {document_id} :
                      weather_reports'[id] = weather_reports[id]

(***************************************************************************)
(* C5.  AppendReading puts the given reading last in the readings of the   *)
(* report and sets last_modified to the reading's time stamp; the readings *)
(* stored before keep value and place; date, location, station, owner and  *)
(* day_summary of the report and every other report stay as they were.     *)
(***************************************************************************)
C5_AppendTouchesOnlyTheReport ==
    [][C5_AppendTouchesOnlyTheReport_Step]_vars

\* a reading appended to a report that held a reading and a day summary
C5_Witness ==
    /\ log.handler = AppendLog
    /\ log.modified = 1
    /\ document_id \in DOMAIN weather_reports
    /\ Len(ReadingsOf(weather_reports[document_id])) >= 2
    /\ "day_summary" \in DOMAIN weather_reports[document_id]

(***************************************************************************)
(* C6.  With one writer at a time, right after every RecomputeSummary on a *)
(* report with at least one reading, day_summary is the roll-up of all the *)
(* readings the report holds.                                              *)
(***************************************************************************)
C6_SummaryIsRollUpOfAllReadings ==
    (/\ log.handler = RecomputeLog
     /\ document_id \in DOMAIN weather_reports
     /\ ReadingsOf(weather_reports[document_id]) # <<>>)
        => /\ "day_summary" \in DOMAIN weather_reports[document_id]
           /\ IsRollUp(weather_reports[document_id]["day_summary"],
                       ReadingsOf(weather_reports[document_id]))

\* temperatures 6.5, 6.0, 5.6 give temp_min 5.6, temp_max 6.5, mean 18.1/3
C6_Witness ==
    /\ log.handler = RecomputeLog
    /\ document_id = 2
    /\ ReadingsOf(weather_reports[2])
           = <<reading_london_midnight, reading_london_1am, reading_london_2am>>
    /\ weather_reports[2]["day_summary"].temp_min = 56
    /\ weather_reports[2]["day_summary"].temp_max = 65
    /\ weather_reports[2]["day_summary"].temp_mean.num * 3
           = 181 * weather_reports[2]["day_summary"].temp_mean.den

\* what C7 requires of a step
C7_RecomputeWithoutReadingsWritesNothing_Step ==
    (/\ RecomputeSummary
     /\ document_id \in DOMAIN weather_reports
     /\ ReadingsOf(weather_reports[document_id]) = <<>>)
       => /\ weather_reports' = weather_reports
          /\ weather_stations' = weather_stations
          /\ users' = users

(***************************************************************************)
(* C7.  RecomputeSummary on a report with no reading is a no-op: no        *)
(* day_summary is written, and the version, last_modified and every other  *)
(* field of the report stay as they were.                                  *)
(***************************************************************************)
C7_RecomputeWithoutReadingsWritesNothing ==
    [][C7_RecomputeWithoutReadingsWritesNothing_Step]_vars

\* RecomputeSummary has run on a report with no reading
C7_Witness ==
    /\ log.handler = RecomputeLog
    /\ log.update = Absent
    /\ document_id \in DOMAIN weather_reports
    /\ ReadingsOf(weather_reports[document_id]) = <<>>
    /\ "day_summary" \notin DOMAIN weather_reports[document_id]


\* both writers append and both have finished
BothAppended ==
    /\ writers # NoWriters
    /\ \A w \in Writers :
          /\ writers[w].handler = "insert_new_weather_station_reading"
          /\ writers[w].pc = "done"

\* the report the writers work on, as it was when they started
ReportBefore == before[1].weather_reports[document_id]

\* the readings of the report hold those of before and then both appended
BothReadingsStored ==
    LET r1 == writers["w1"].reading[1]
        r2 == writers["w2"].reading[1]
    IN  ReadingsOf(weather_reports[document_id])
            \in {ReadingsOf(ReportBefore) \o <<r1, r2>>,
                 ReadingsOf(ReportBefore) \o <<r2, r1>>}

(***************************************************************************)
(* C4.  As claimed: when two writers race on AppendReading on the same     *)
(* report, both readings end up stored and one version increment is lost:  *)
(* the final version is the starting version plus 1.                       *)
(***************************************************************************)
C4_RacingAppendsLoseOneIncrement ==
    BothAppended =>
        /\ BothReadingsStored
        /\ Version(weather_reports[document_id]) = Version(ReportBefore) + 1

(***************************************************************************)
(* C4, amended.  When two writers race on AppendReading on the same        *)
(* report, both readings end up stored and both version increments count:  *)
(* the final version is the starting version plus 2.                       *)
(***************************************************************************)
C4_RacingAppendsKeepBothIncrements ==
    BothAppended =>
        /\ BothReadingsStored
        /\ Version(weather_reports[document_id]) = Version(ReportBefore) + 2

\* two writers have appended different readings to the new London report
C4_Witness ==
    /\ BothAppended
    /\ document_id = 2
    /\ writers["w1"].reading # writers["w2"].reading
    /\ Len(ReadingsOf(weather_reports[2])) = 2
    /\ Version(weather_reports[2]) = 3


\* the name a User document shows: institution for an institution,
\* display_name for a weather watcher
UserDisplayName(doc) ==
    IF doc.user_type = "Private" THEN doc.display_name ELSE doc.institution

\* the collections as they were when the rename sequence started
AtStart == before[1]

\* the documents of coll that embed the renamed owner
OfOwner(coll) == Matching(coll, OwnerFilter(rename.user_id))

\* every document of coll that embeds the renamed owner carries the new name
AllCarry(coll) == \A id \in OfOwner(coll) : coll[id]["owner"].name = rename.new_name

\* some document of coll that embeds the renamed owner carries the new name
SomeCarry(coll) == \E id \in OfOwner(coll) : coll[id]["owner"].name = rename.new_name

UserCarries(coll) == UserDisplayName(coll[rename.user_id]) = rename.new_name

\* the owner names held for the renamed user in the three collections
NamesHeld ==
    {weather_reports[id]["owner"].name : id \in OfOwner(weather_reports)}
        \cup {weather_stations[id]["owner"].name : id \in OfOwner(weather_stations)}
        \cup {UserDisplayName(users[rename.user_id])}

\* the whole sequence has run
RenameComplete == rename.step = 3 /\ ~rename.running

\* the reports after the complete sequence: those of the owner renamed,
\* one version up and stamped, the others as they were
ReportsRenamed ==
    /\ DOMAIN weather_reports = DOMAIN AtStart.weather_reports
    /\ \A id \in DOMAIN weather_reports :
          IF id \in Matching(AtStart.weather_reports, OwnerFilter(rename.user_id))
          THEN /\ weather_reports[id]["owner"].name = rename.new_name
               /\ Version(weather_reports[id])
                      = Version(AtStart.weather_reports[id]) + 1
               /\ weather_reports[id]["last_modified"] = rename.modification_date
          ELSE weather_reports[id] = AtStart.weather_reports[id]

(***************************************************************************)
(* C8.  As claimed: after the complete rename sequence, for every owner,   *)
(* institution or weather watcher, every report of the owner has the new   *)
(* owner name, a version 1 higher and last_modified at the modification    *)
(* time, the reports of other owners are as they were, and the display     *)
(* name of the owner's User document is the new name.                      *)
(***************************************************************************)
C8_RenameReachesReportsAndUser ==
    RenameComplete => ReportsRenamed /\ UserCarries(users)

(***************************************************************************)
(* C8, amended.  After the complete rename sequence, for every owner,      *)
(* every report of the owner has the new owner name, a version 1 higher    *)
(* and last_modified at the modification time, and the reports of other    *)
(* owners are as they were; the display name of the owner's User document  *)
(* is the new name when the owner is an institution.                       *)
(***************************************************************************)
C8_RenameReachesReportsAndInstitution ==
    RenameComplete =>
        /\ ReportsRenamed
        /\ users[rename.user_id].user_type # "Private" => UserCarries(users)

\* Cambridge University has become Science Dept. Cambridge University
C8_Witness ==
    /\ RenameComplete
    /\ rename.user_id = "camUni"
    /\ rename.new_name = "Science Dept. Cambridge University"
    /\ UserDisplayName(AtStart.users["camUni"]) = "Cambridge University"
    /\ AtStart.weather_reports[1]["owner"].name = "Cambridge University"
    /\ weather_reports[1]["owner"].name = "Science Dept. Cambridge University"
    /\ weather_reports[3]["owner"].name = "Science Dept. Cambridge University"
    /\ users["camUni"].institution = "Science Dept. Cambridge University"

\* a rename sequence has started, and may have stopped or ended
RenameStarted == before # NoSnapshot

\* the order of propagation, read off the state
UserThenStationsThenReports ==
    /\ UserCarries(users) => AllCarry(weather_stations)
    /\ SomeCarry(weather_stations) => AllCarry(weather_reports)

(***************************************************************************)
(* C9.  As claimed: in every state during or after a rename, a crash       *)
(* between two calls included, if the User document carries the new name   *)
(* then every station of the owner carries it, and if some station of the  *)
(* owner carries it then every report of the owner carries it.             *)
(***************************************************************************)
C9_RenameOrder ==
    RenameStarted => UserThenStationsThenReports

(***************************************************************************)
(* C9, amended.  The same, for a rename at whose start neither the User    *)
(* document nor any station of the owner carried the new name.             *)
(***************************************************************************)
C9_RenameOrderWhenNameIsNew ==
    (/\ RenameStarted
     /\ ~UserCarries(AtStart.users)
     /\ ~SomeCarry(AtStart.weather_stations))
        => UserThenStationsThenReports

\* the sequence stopped after the stations call: reports and stations carry
\* the new name, the User document does not
C9_Witness ==
    /\ RenameStarted
    /\ ~UserCarries(AtStart.users)
    /\ ~SomeCarry(AtStart.weather_stations)
    /\ rename.crashed
    /\ rename.step = 2
    /\ OfOwner(weather_stations) # {}
    /\ AllCarry(weather_stations)
    /\ AllCarry(weather_reports)
    /\ ~UserCarries(users)

\* the sequence stopped after the first or the second call
CrashedMidSequence == rename.crashed /\ rename.step \in {1, 2}

(***************************************************************************)
(* C10.  As claimed: whenever the rename sequence stops after the reports  *)
(* call or after the stations call, the owner names held for the user in   *)
(* weather_reports, weather_stations and the User document are not all     *)
(* equal.                                                                  *)
(***************************************************************************)
C10_CrashIsDetectable ==
    CrashedMidSequence => Cardinality(NamesHeld) > 1

(***************************************************************************)
(* C10, amended.  The same, for an owner with at least one weather report  *)
(* and a rename at whose start the User document did not carry the new     *)
(* name.                                                                   *)
(***************************************************************************)
C10_CrashIsDetectableWhenNameIsNew ==
    (/\ CrashedMidSequence
     /\ OfOwner(AtStart.weather_reports) # {}
     /\ ~UserCarries(AtStart.users))
        => Cardinality(NamesHeld) > 1

\* the sequence stopped after the reports call: get_distinct_owner_names
\* shows the new name in weather_reports and not in weather_stations
C10_Witness ==
    /\ CrashedMidSequence
    /\ rename.step = 1
    /\ rename.user_id = "camUni"
    /\ ~UserCarries(AtStart.users)
    /\ rename.new_name \in get_distinct_owner_names(weather_reports)
    /\ rename.new_name \notin get_distinct_owner_names(weather_stations)

(***************************************************************************)
(* Claims about imports and inserted reports.                              *)
(***************************************************************************)
\* the reports of station station_id for the calendar day of date
ReportsOfStationDay(station_id, date) ==
    {id \in DOMAIN weather_reports :
        /\ "station" \in DOMAIN weather_reports[id]
        /\ weather_reports[id].station.station_id = station_id
        /\ weather_reports[id].date \div 86400 = date \div 86400}

\* C11: whatever imports and report insertions have run, weather_reports
\* holds at most one document for a station and a calendar day.
C11_OneReportPerStationDay ==
    \A id \in DOMAIN weather_reports :
        "station" \in DOMAIN weather_reports[id] =>
            ReportsOfStationDay(weather_reports[id].station.station_id,
                                weather_reports[id].date) = {id}

(***************************************************************************)
(* Claims about the weather extremes report.                               *)
(***************************************************************************)
\* the handler that ran last is create_weather_extremes_report(station_id)
ExtremesBuiltFor(station_id) ==
    /\ log.handler = ExtremesLog
    /\ log.filter = Some([path |-> "station.station_id", value |-> station_id])

\* the documents of weather_extremes that belong to station_id
ExtremesOf(station_id) ==
    {weather_extremes[i] : i \in {j \in 1 .. Len(weather_extremes) :
                                     weather_extremes[j].station_id = station_id}}

\* no two documents of weather_extremes have the same _id
ExtremesKeysUnique ==
    \A i, j \in 1 .. Len(weather_extremes) :
        weather_extremes[i]._id = weather_extremes[j]._id => i = j

C12_Step ==
    /\ \A station_id \in ExtremesStations :
          ExtremesBuiltFor(station_id)
              /\ create_weather_extremes_report(station_id)
          => weather_extremes' = weather_extremes
    /\ ExtremesKeysUnique'

\* C12: a run of create_weather_extremes_report that follows a run for the
\* same station, with nothing done in between, leaves weather_extremes as it
\* is, and no two documents of weather_extremes ever have the same key
\* stationID-YYYYMMDD.
C12_RerunChangesNothingAndKeysAreUnique == [][C12_Step]_vars

\* the report for Cambridge has just been built, it holds both days of
\* Cambridge, and the report for Ipswich was built before it
C12_Witness ==
    /\ ExtremesBuiltFor("WS-UNI001")
    /\ Cardinality(ExtremesOf("WS-UNI001")) = 2
    /\ ExtremesOf("WS-WW1001") # {}

\* a report of station_id that meets one of the four thresholds now
MeetsThreshold(report, station_id) ==
    /\ "station" \in DOMAIN report
    /\ report.station.station_id = station_id
    /\ "day_summary" \in DOMAIN report
    /\ \/ report.day_summary.temp_min < -50
       \/ report.day_summary.temp_max > 280
       \/ report.day_summary.wind_speed_max > 1200
       \/ report.day_summary.precip_sum > 150

\* C13: once create_weather_extremes_report(s) has run, the documents of
\* weather_extremes for s are those of the reports of s that meet a
\* threshold now, one for each, with their current values, and no other.
C13_ExtremesAreTheQualifyingReports ==
    \A station_id \in ExtremesStations :
        ExtremesBuiltFor(station_id) =>
            {[date |-> d.date, temp_min |-> d.temp_min, temp_max |-> d.temp_max,
              wind_speed_max |-> d.wind_speed_max, precip_sum |-> d.precip_sum] :
                 d \in ExtremesOf(station_id)}
            = {[date |-> r.date, temp_min |-> r.day_summary.temp_min,
                temp_max |-> r.day_summary.temp_max,
                wind_speed_max |-> r.day_summary.wind_speed_max,
                precip_sum |-> r.day_summary.precip_sum] :
                 r \in {weather_reports[id] : id \in
                           {k \in DOMAIN weather_reports :
                               MeetsThreshold(weather_reports[k], station_id)}}}

\* C14: in every document of the extremes report, extreme_temp is "Very
\* Cold" when temp_min is below 0, otherwise "Very Hot" when temp_max is
\* above 28, otherwise null.
C14_ExtremeTempLabel ==
    \A i \in 1 .. Len(weather_extremes) :
        LET d == weather_extremes[i]
        IN  d.extreme_temp =
                IF d.temp_min < 0 THEN "Very Cold"
                ELSE IF d.temp_max > 280 THEN "Very Hot"
                ELSE Null

\* the day of the example is in the report: temp_min -6, wind 5, rain 2,
\* labelled "Very Cold"; and so are a day that is cold and hot at once and a
\* day that is neither
C14_Witness ==
    /\ \E i \in 1 .. Len(weather_extremes) :
          /\ weather_extremes[i].temp_min = -60
          /\ weather_extremes[i].temp_max = 290
          /\ weather_extremes[i].wind_speed_max = 500
          /\ weather_extremes[i].precip_sum = 20
          /\ weather_extremes[i].extreme_temp = "Very Cold"
    /\ \E i \in 1 .. Len(weather_extremes) :
          weather_extremes[i].extreme_temp = Null

\* C15: in every document of the extremes report, extreme_weather is
\* "Storm" exactly when the wind is above 12 and the rain above 15, "Strong
\* Winds" exactly when only the wind is, "Heavy Rain" exactly when only the
\* rain is, and null exactly when neither is.
C15_ExtremeWeatherLabel ==
    \A i \in 1 .. Len(weather_extremes) :
        LET d == weather_extremes[i]
            windy == d.wind_speed_max > 1200
            rainy == d.precip_sum > 150
        IN  /\ d.extreme_weather = "Storm" <=> windy /\ rainy
            /\ d.extreme_weather = "Strong Winds" <=> windy /\ ~rainy
            /\ d.extreme_weather = "Heavy Rain" <=> ~windy /\ rainy
            /\ d.extreme_weather = Null <=> ~windy /\ ~rainy

\* the report holds a storm, a day of strong winds only with the rain at
\* the threshold, and a day with no extreme weather
C15_Witness ==
    /\ \E i \in 1 .. Len(weather_extremes) :
          weather_extremes[i].extreme_weather = "Storm"
    /\ \E i \in 1 .. Len(weather_extremes) :
          /\ weather_extremes[i].extreme_weather = "Strong Winds"
          /\ weather_extremes[i].precip_sum = 150
    /\ \E i \in 1 .. Len(weather_extremes) :
          weather_extremes[i].extreme_weather = Null

(***************************************************************************)
(* Claims about the pages of a balloon launch.                             *)
(***************************************************************************)
RECURSIVE Concat(_)
\* the pages one after the other
Concat(pages) == IF pages = <<>> THEN <<>> ELSE Head(pages) \o Concat(Tail(pages))

\* every page of the launch has been read
AllPagesRead ==
    /\ query_result # NoDocuments
    /\ Len(query_result) * log.filter[1].page_size
          >= Len(weather_balloon_reports[1]["readings"])

\* C16: the pages 1..ceil(N/p) of a launch, one after the other, are the
\* readings of the launch in ascending order of gpheight, each reading once
\* and none missing, also when readings share a gpheight.
C16_PagesReproduceTheLaunch ==
    AllPagesRead =>
        LET rows == Concat(query_result)
            readings == weather_balloon_reports[1]["readings"]
        IN  /\ Len(rows) = Len(readings)
            /\ \A i, j \in 1 .. Len(rows) :
                  i < j => rows[i].gpheight <= rows[j].gpheight
            /\ \A k \in 1 .. Len(readings) :
                  Cardinality({i \in 1 .. Len(rows) :
                      rows[i] = [timestamp |-> readings[k].timestamp,
                                 gpheight |-> readings[k].gpheight,
                                 temp |-> readings[k].temp]}) = 1

(***************************************************************************)
(* Claims about the read queries over the hourly readings.                 *)
(***************************************************************************)
\* the query that ran last is the one named, with these arguments
QueryRan(name, arguments) ==
    log.handler = name /\ log.filter = Some(arguments)

\* the reports of a station
ReportsOfStation(station_id) ==
    {weather_reports[id] : id \in {k \in DOMAIN weather_reports :
        /\ "station" \in DOMAIN weather_reports[k]
        /\ weather_reports[k].station.station_id = station_id}}

\* the temperatures of the readings a report holds for an hour of the day
TempsAt(report, hour) ==
    {report.readings[i].temp : i \in {j \in 1 .. Len(report.readings) :
        (report.readings[j].timestamp - report.date) \div 3600 = hour}}

\* C17: every row of create_cooler_afternoons_report is a day of the station
\* in the year that has a reading at 09:00 and one at 15:00, the one at
\* 15:00 strictly colder; a day whose afternoon is as warm or warmer, or
\* that lacks either reading, is no row.
C17_RowsAreCoolerAfternoons ==
    \A station_id \in QueryStations, search_year \in {2024, 2025} :
        QueryRan("create_cooler_afternoons_report",
                 [station_id |-> station_id, search_year |-> search_year])
        => \A i \in 1 .. Len(query_result) :
              \E report \in ReportsOfStation(station_id) :
                  /\ report.date = query_result[i]._id
                  /\ civil_from_timestamp(report.date).year = search_year
                  /\ TempsAt(report, 9) # {}
                  /\ TempsAt(report, 15) # {}
                  /\ \A t9 \in TempsAt(report, 9), t15 \in TempsAt(report, 15) :
                        t15 < t9

\* the readings of a report made from start_hour up to, not including,
\* end_hour
ReadingsInRange(report, start_hour, end_hour) ==
    {i \in 1 .. Len(report.readings) :
        /\ report.readings[i].timestamp >= report.date + start_hour * 3600
        /\ report.readings[i].timestamp < report.date + end_hour * 3600}

\* the row calculate_average_temperature_time_range owes a report day: the
\* day, the number of its readings in the range and the sum of their
\* temperatures
RowOwed(report, start_hour, end_hour) ==
    LET used == ReadingsInRange(report, start_hour, end_hour)
        sumOf[s \in SUBSET used] ==
            IF s = {} THEN 0
            ELSE LET i == CHOOSE i \in s : TRUE
                 IN  report.readings[i].temp + sumOf[s \ {i}]
    IN  [date |-> civil_from_timestamp(report.date),
         reading_count |-> Cardinality(used), sum |-> sumOf[used]]

\* C20: calculate_average_temperature_time_range uses a reading exactly when
\* start_hour <= hour < end_hour: it gives one row for each report day of the
\* station with such a reading, whose reading_count is the number of such
\* readings of the day and whose average is theirs, and no row for a day
\* without one.
C20_AverageOverHalfOpenRange ==
    \A station_id \in QueryStations, range \in TimeRanges :
        QueryRan("calculate_average_temperature_time_range",
                 [station_id |-> station_id, start_hour |-> range[1],
                  end_hour |-> range[2]])
        => LET owed == {row \in {RowOwed(report, range[1], range[2]) :
                                    report \in ReportsOfStation(station_id)} :
                           row.reading_count > 0}
           IN  /\ Len(query_result) = Cardinality(owed)
               /\ {[date |-> query_result[i]._id.date,
                    reading_count |-> query_result[i].reading_count,
                    sum |-> query_result[i].avg_temperature.num] :
                       i \in 1 .. Len(query_result)} = owed
               /\ \A i \in 1 .. Len(query_result) :
                     query_result[i].avg_temperature.den
                        = query_result[i].reading_count

\* from 09:00 to 15:00 on a day of Cambridge with readings at 09:00, 12:00
\* and 15:00: the day's row counts two readings, and the day of 2024, whose
\* reading at 15:00 is left out as well, has the other row
C20_Witness ==
    /\ QueryRan("calculate_average_temperature_time_range",
                [station_id |-> "WS-UNI001", start_hour |-> 9, end_hour |-> 15])
    /\ Len(weather_reports[1].readings) = 3
    /\ Len(query_result) = 2
    /\ query_result[1]._id.date = [year |-> 2025, month |-> 4, day |-> 9]
    /\ query_result[1].reading_count = 2
    /\ query_result[2].reading_count = 1

(***************************************************************************)
(* Claims about the storage reports.                                       *)
(***************************************************************************)
\* the year, the month and the owner of a report
StorageKey(report) ==
    [year |-> civil_from_timestamp(report.date).year,
     month |-> civil_from_timestamp(report.date).month,
     owner_id |-> report.owner.user_id]

\* the ids of the reports of a year, a month and an owner
ReportsOfKey(key) ==
    {id \in DOMAIN weather_reports : StorageKey(weather_reports[id]) = key}

\* the sum of size over the members of a set
SumOver(members, size) ==
    LET sumOf[s \in SUBSET members] ==
            IF s = {} THEN 0
            ELSE LET m == CHOOSE m \in s : TRUE IN size[m] + sumOf[s \ {m}]
    IN  sumOf[members]

\* C18: once weather_report_storage_size_report has run, the storage report
\* holds one document for each year, month and owner of the reports there
\* are now and no other, with the number of those reports as document_count
\* and the sum of their sizes as total_storage_bytes, and the document
\* counts add up to the number of reports.
C18_StorageReportIsTheCurrentGrouping ==
    log.handler = "weather_report_storage_size_report" =>
        LET report == weather_report_storage_report
            rows == 1 .. Len(report)
        IN  /\ \A i, j \in rows : report[i]._id = report[j]._id => i = j
            /\ {report[i]._id : i \in rows}
                  = {StorageKey(weather_reports[id]) : id \in DOMAIN weather_reports}
            /\ \A i \in rows :
                  /\ report[i].document_count
                        = Cardinality(ReportsOfKey(report[i]._id))
                  /\ report[i].total_storage_bytes
                        = SumOver(ReportsOfKey(report[i]._id),
                                  [id \in DOMAIN weather_reports |->
                                      bson_size(weather_reports[id])])
            /\ SumOver(rows, [i \in rows |-> report[i].document_count])
                  = Cardinality(DOMAIN weather_reports)

\* the storage report has been rebuilt after a report of Cambridge was
\* deleted and after an earlier storage report was read: two months of one
\* owner are two groups, and the one report left of Cambridge is a group of
\* its own
C18_Witness ==
    /\ log.handler = "weather_report_storage_size_report"
    /\ query_result # NoDocuments
    /\ Cardinality(DOMAIN weather_reports) = 5
    /\ \E i, j \in 1 .. Len(weather_report_storage_report) :
          /\ weather_report_storage_report[i]._id.owner_id = "ps2004"
          /\ weather_report_storage_report[j]._id.owner_id = "ps2004"
          /\ i # j
    /\ \E i \in 1 .. Len(weather_report_storage_report) :
          /\ weather_report_storage_report[i]._id.owner_id = "camUni"
          /\ weather_report_storage_report[i].document_count = 1

\* the owners of the storage report and the bytes each one holds
StorageOwners ==
    {weather_report_storage_report[i]._id.owner_id :
        i \in 1 .. Len(weather_report_storage_report)}

TotalBytes(owner_id) ==
    LET own == {i \in 1 .. Len(weather_report_storage_report) :
                   weather_report_storage_report[i]._id.owner_id = owner_id}
    IN  SumOver(own, [i \in own |->
                         weather_report_storage_report[i].total_storage_bytes])

\* C19: get_top_five_users_of_storage gives at most 5 rows, at most one for
\* an owner, in the order of the owners' totals (the sum of
\* total_storage_bytes over the owner's groups), largest first, and no owner
\* left out has a strictly larger total than an owner in a row.
C19_TopFiveByTotalBytes ==
    log.handler = "get_top_five_users_of_storage" =>
        LET rows == 1 .. Len(query_result)
            included == {query_result[i].owner_id : i \in rows}
        IN  /\ Len(query_result) <= 5
            /\ \A i, j \in rows :
                  query_result[i].owner_id = query_result[j].owner_id => i = j
            /\ included \subseteq StorageOwners
            /\ \A i, j \in rows :
                  i < j => TotalBytes(query_result[i].owner_id)
                             >= TotalBytes(query_result[j].owner_id)
            /\ \A out \in StorageOwners \ included, in \in included :
                  TotalBytes(out) <= TotalBytes(in)


\* one writer recomputes, the other appends, and both have finished
RecomputeRacedAppend(w, v) ==
    /\ writers # NoWriters
    /\ writers[w].handler = "use_aggregation_pipeline_to_compute_a_day_summary"
    /\ writers[v].handler = "insert_new_weather_station_reading"
    /\ writers[w].pc = "done"
    /\ writers[v].pc = "done"
    /\ writers[w].result # Absent
    /\ writers[w].result[1] # <<>>

(***************************************************************************)
(* C28.  The recompute is a read followed by a write.  When an append of   *)
(* another writer commits between the two, the recompute still completes   *)
(* and writes the summary it computed at its read: once both have          *)
(* finished, day_summary is the result of that read, the appended reading  *)
(* is stored last, and version counts both operations.                     *)
(***************************************************************************)
C28_RecomputeWritesTheSummaryItRead ==
    \A w, v \in Writers :
        RecomputeRacedAppend(w, v) =>
            LET report == weather_reports[document_id]
            IN  /\ report["day_summary"] = Without(writers[w].result[1][1], "_id")
                /\ ReadingsOf(report)
                       = Append(ReadingsOf(ReportBefore), writers[v].reading[1])
                /\ Version(report) = Version(ReportBefore) + 2

\* no writer is pending, version counts both, and the summary written is
\* not the roll-up of the stored readings: it leaves out the last one
C28_Witness ==
    \E w, v \in Writers :
        /\ RecomputeRacedAppend(w, v)
        /\ Version(weather_reports[document_id]) = Version(ReportBefore) + 2
        /\ aggregate_day_summary(before[1].weather_reports, document_id)
               = writers[w].result[1]
        /\ aggregate_day_summary(weather_reports, document_id)
               # writers[w].result[1]
        /\ weather_reports[document_id]["day_summary"]
               = Without(writers[w].result[1][1], "_id")


\* the step is a call of delete_weather_reports: the log shows its filter
DeleteCalled == log'.handler = "delete_weather_reports"

\* the reports of the station in coll dated d with start <= d <= end
StationReportsFromTo(coll, station_id, start, end) ==
    {id \in DOMAIN coll :
        /\ "station" \in DOMAIN coll[id]
        /\ coll[id].station.station_id = station_id
        /\ start <= coll[id].date
        /\ coll[id].date <= end}

(***************************************************************************)
(* C29.  delete_weather_reports removes exactly the reports of the station *)
(* dated from start to end, both days included, and leaves every other     *)
(* report and every other collection as it was: the count of the station's *)
(* reports drops by the number deleted, and the same call made again finds *)
(* nothing to delete.                                                      *)
(***************************************************************************)
C29_Step ==
    DeleteCalled =>
        LET filter == log'.filter[1]
            removed == StationReportsFromTo(weather_reports, filter.value,
                                            filter.gte, filter.lte)
        IN  /\ DOMAIN weather_reports' = DOMAIN weather_reports \ removed
            /\ \A id \in DOMAIN weather_reports' :
                  weather_reports'[id] = weather_reports[id]
            /\ UNCHANGED <<weather_stations, users, derived>>
            /\ log'.modified = Cardinality(removed)
            /\ count_weather_reports_for_station(weather_reports', filter.value)
                  = count_weather_reports_for_station(weather_reports,
                                                      filter.value)
                       - Cardinality(removed)
            /\ StationReportsFromTo(weather_reports', filter.value,
                                    filter.gte, filter.lte) = {}

C29_DeleteRemovesExactlyTheRange == [][C29_Step]_vars

\* both Cambridge days were deleted in one call whose range starts on the
\* first and ends on the second, and the report of Ipswich is still there
C29_Witness ==
    /\ log.handler = "delete_weather_reports"
    /\ log.filter = Some(DeleteFilter("WS-UNI001", -2 * 86400, -86400))
    /\ log.modified = 2
    /\ DOMAIN weather_reports = {3}


\* what a complete sequence for the user and the name of this run leaves:
\* the name in every report and station of the owner and in the institution
\* field of the User document
LeftByCompleteRename(colls) ==
    /\ AllCarry(colls.weather_reports)
    /\ AllCarry(colls.weather_stations)
    /\ "institution" \in DOMAIN colls.users[rename.user_id]
    /\ colls.users[rename.user_id]["institution"] = rename.new_name

\* the complete sequence has run again from such a state
RenameRanAgain ==
    /\ RenameComplete
    /\ before # NoSnapshot
    /\ LeftByCompleteRename(AtStart)

(***************************************************************************)
(* C30.  Running the complete rename sequence again with the same user_id  *)
(* and the same new name changes no owner name: weather_stations and users *)
(* are as they were and every report keeps its owner.  It is not a no-op   *)
(* on the reports of the owner: each has its version raised by 1 and its   *)
(* last_modified set to the modification time of the second run; the       *)
(* reports of other owners are as they were.                               *)
(***************************************************************************)
C30_RerunKeepsNamesAndRaisesVersion ==
    RenameRanAgain =>
        /\ weather_stations = AtStart.weather_stations
        /\ users = AtStart.users
        /\ DOMAIN weather_reports = DOMAIN AtStart.weather_reports
        /\ \A id \in DOMAIN weather_reports :
              IF id \in OfOwner(AtStart.weather_reports)
              THEN weather_reports[id] =
                      [AtStart.weather_reports[id] EXCEPT
                          !["version"] = @ + 1,
                          !["last_modified"] = rename.modification_date]
              ELSE weather_reports[id] = AtStart.weather_reports[id]

\* the weather watcher ps2004 was renamed twice to the same name at two
\* times of day: report 2 is at version 3 with the second stamp
C30_Witness ==
    /\ RenameRanAgain
    /\ rename.user_id = "ps2004"
    /\ Version(RenameReports[2]) = 1
    /\ Version(AtStart.weather_reports[2]) = 2
    /\ Version(weather_reports[2]) = 3
    /\ AtStart.weather_reports[2]["last_modified"] # rename.modification_date
    /\ weather_reports[2]["last_modified"] = rename.modification_date
    /\ weather_reports[2]["owner"].name = rename.new_name


\* a file that is not well formed: a section is missing, a row is shorter
\* than its header, or a day has hourly readings and no daily row
Malformed(file) ==
    \/ file.sections < 3
    \/ file.station_values < Len(file.station_header)
    \/ \E i \in 1 .. Len(file.hourly) : ~file.hourly[i].complete
    \/ \E i \in 1 .. Len(file.daily) : ~file.daily[i].complete
    \/ \E i \in 1 .. Len(file.hourly) :
          \A j \in 1 .. Len(file.daily) :
              file.daily[j].day # file.hourly[i].day

(***************************************************************************)
(* C27.  An import from a malformed file (a section missing, a short row,  *)
(* or a day with hourly readings and no daily row) fails with an error     *)
(* and writes nothing: weather_reports, weather_stations and               *)
(* maintenance_logs are left as they were.                                 *)
(***************************************************************************)
C27_Step ==
    (log'.handler = "import_data" /\ Malformed(log'.filter[1].file)) =>
        /\ log'.update # Some("")
        /\ UNCHANGED <<weather_reports, weather_stations, maintenance_logs>>

LogsInLastDays(station_id, days, now) ==
    {id \in DOMAIN maintenance_logs :
        /\ maintenance_logs[id].station_id = station_id
        /\ maintenance_logs[id].timestamp >= now - days * 86400
        /\ maintenance_logs[id].timestamp <= now}

(***************************************************************************)
(* C21.  get_technician_activity(station_id, days) counts exactly the      *)
(* maintenance logs of the station written within the last days days       *)
(* before now, whatever days is: its rows are the technicians of those     *)
(* logs, each with the number of its logs among them.                      *)
(***************************************************************************)
C21_CountsTheLogsOfTheLastDays ==
    \A station_id \in {"WS-GLA001", "WS-UNI001"}, days \in {30, 180, 365},
       now \in {12 * 3600, 86400 + 9 * 3600} :
        QueryRan("get_technician_activity",
                 [station_id |-> station_id, days |-> days, now |-> now]) =>
            LET counted == LogsInLastDays(station_id, days, now)
                rows == query_result[1].tech_summary
            IN  /\ {rows[i].tech_id : i \in 1 .. Len(rows)}
                      = {maintenance_logs[id].tech_id : id \in counted}
                /\ \A i \in 1 .. Len(rows) :
                      rows[i].log_count =
                          Cardinality({id \in counted :
                              maintenance_logs[id].tech_id = rows[i].tech_id})


(***************************************************************************)
(* Claims about the users: what is stored of them and what is embedded.    *)
(***************************************************************************)
\* the embedded owner of a document holds no password field and none of
\* its values is a plaintext password, a password hash, or the encrypted
\* name or email of a private user or administrator
OwnerHoldsNoSecret(doc) ==
    "owner" \in DOMAIN doc =>
        /\ "password" \notin DOMAIN doc["owner"]
        /\ \A f \in DOMAIN doc["owner"] :
              /\ \A u \in TestUserIds : doc["owner"][f] # TestPasswords[u]
              /\ \A u \in DOMAIN users :
                    /\ users[u]["password"] # doc["owner"][f]
                    /\ users[u]["user_type"] \in {"Private", "Admin"} =>
                          /\ users[u]["name"] # doc["owner"][f]
                          /\ users[u]["email"] # doc["owner"][f]

(***************************************************************************)
(* C22.  For every user variant (institution, weather watcher,             *)
(* administrator) the password field of the stored user document is the    *)
(* one-way hash of the password and never the password itself, and no      *)
(* document of weather_stations, weather_reports or                        *)
(* weather_balloon_reports holds, in a password field or in its embedded   *)
(* owner, the password, its hash, or the encrypted name or email of a      *)
(* weather watcher.                                                        *)
(***************************************************************************)
C22_PasswordsAreHashedAndNeverEmbedded ==
    /\ \A u \in DOMAIN users :
          /\ users[u]["password"] # TestPasswords[u]
          /\ \E salt \in Salts :
                users[u]["password"] = <<"bcrypt", salt, TestPasswords[u]>>
    /\ \A id \in DOMAIN weather_stations :
          /\ "password" \notin DOMAIN weather_stations[id]
          /\ OwnerHoldsNoSecret(weather_stations[id])
    /\ \A id \in DOMAIN weather_reports :
          /\ "password" \notin DOMAIN weather_reports[id]
          /\ OwnerHoldsNoSecret(weather_reports[id])
    /\ \A id \in DOMAIN weather_balloon_reports :
          /\ "password" \notin DOMAIN weather_balloon_reports[id]
          /\ OwnerHoldsNoSecret(weather_balloon_reports[id]["station"])

\* the users of the three variants are stored, and the station of a weather
\* watcher, a report and a balloon launch of an institution embed their owners
C22_Witness ==
    /\ DOMAIN users = TestUserIds
    /\ {users[u]["user_type"] : u \in DOMAIN users}
          = {"Admin", "University", "Government", "Private"}
    /\ "WS-WW1001" \in DOMAIN weather_stations
    /\ weather_stations["WS-WW1001"]["owner"].user_id = "ps2004"
    /\ \E id \in DOMAIN weather_reports :
          weather_reports[id]["owner"].user_id = "camUni"
    /\ \E id \in DOMAIN weather_balloon_reports :
          weather_balloon_reports[id]["station"]["owner"].user_id = "metoff1"

\* the step is a call of validate_user: the log shows what was entered
ValidateCalled == log'.handler = "validate_user"

(***************************************************************************)
(* C23.  validate_user(user_id, password) returns True exactly when a user *)
(* document with that _id exists and the password verifies against its     *)
(* stored hash; for an unknown user id it logs "User not found" and for a  *)
(* wrong password "Invalid password", False in both cases; and it never    *)
(* changes users.                                                          *)
(***************************************************************************)
C23_Step ==
    ValidateCalled =>
        LET entered == log'.filter[1]
            answer == query_result'[1]
            known == entered["_id"] \in DOMAIN users
            verifies == known /\ entered["password"] = TestPasswords[entered["_id"]]
        IN  /\ users' = users
            /\ answer.valid = verifies
            /\ (answer.logged = "User not found") = ~known
            /\ (answer.logged = "Invalid password") = (known /\ ~verifies)

C23_ValidateUserAnswers == [][C23_Step]_vars

\* Cambridge University was refused with the password of the administrator
C23_Witness ==
    /\ log.handler = "validate_user"
    /\ log.filter = Some([_id |-> "camUni", password |-> "Pa$$4422"])
    /\ DOMAIN users = TestUserIds
    /\ query_result[1].valid = FALSE
    /\ query_result[1].logged = "Invalid password"


(***************************************************************************)
(* Claims about locations and the import of balloon launches.              *)
(***************************************************************************)
\* the geometry was read back without an error
ReadBack == "raised" \notin DOMAIN query_result[1]

(***************************************************************************)
(* C24.  As claimed: for every (lat, lon), the point geometry of           *)
(* Location.to_geojson, longitude first and latitude second, read back     *)
(* with from_geojson gives the original (lat, lon), and no error is        *)
(* raised.                                                                 *)
(***************************************************************************)
C24_LocationReadsBack ==
    \A latitude \in Latitudes, longitude \in Longitudes :
        QueryRan("Location.to_geojson",
                 [latitude |-> latitude, longitude |-> longitude]) =>
            /\ ReadBack
            /\ query_result[1].latitude = latitude
            /\ query_result[1].longitude = longitude

(***************************************************************************)
(* C24, amended.  For every (lat, lon, altitude), the point geometry of    *)
(* LocationWithAltitude.to_geojson, longitude first, latitude second and   *)
(* altitude third, read back with from_geojson gives the original          *)
(* latitude, longitude and altitude, and no error is raised; the geometry  *)
(* of Location.to_geojson, which has two coordinates, is refused by        *)
(* from_geojson with a ValueError.                                         *)
(***************************************************************************)
C24_LocationWithAltitudeReadsBack ==
    /\ \A latitude \in Latitudes, longitude \in Longitudes,
          altitude \in Altitudes :
            QueryRan("LocationWithAltitude.to_geojson",
                     [latitude |-> latitude, longitude |-> longitude,
                      altitude |-> altitude]) =>
                /\ ReadBack
                /\ query_result[1] = [latitude |-> latitude,
                                      longitude |-> longitude,
                                      altitude |-> altitude]
    /\ log.handler = "Location.to_geojson" =>
          /\ ~ReadBack
          /\ query_result[1].raised
                = "ValueError: Expected 3D coordinates [lon, lat, alt]"

\* London at 8848 metres was written and read back
C24_Witness ==
    /\ QueryRan("LocationWithAltitude.to_geojson",
                [latitude |-> 514938470, longitude |-> -1630249,
                 altitude |-> 8848])
    /\ ReadBack
    /\ query_result[1].latitude = 514938470
    /\ query_result[1].longitude = -1630249

\* the step is an import of a balloon launch: the log shows its features
BalloonImportCalled == log'.handler = "radiosonde_import_data"

\* the Point features of a file, in the order of the file
PointFeatures(features) ==
    SelectSeq(features, LAMBDA f : f.geometry.type = "Point")

(***************************************************************************)
(* C25.  In the import of a balloon launch the features that are no Point  *)
(* are skipped and never make the import fail: for every feature           *)
(* collection, one with no Point feature included, the import completes    *)
(* and stores a report whose readings are the Point features, in the       *)
(* order of the file.                                                      *)
(***************************************************************************)
C25_Step ==
    BalloonImportCalled =>
        LET features == log'.filter[1].features
            points == PointFeatures(features)
            stored == DOMAIN weather_balloon_reports'
                         \ DOMAIN weather_balloon_reports
        IN  /\ log'.update = Some("")
            /\ Cardinality(stored) = 1
            /\ \A id \in stored :
                  LET readings == weather_balloon_reports'[id]["readings"]
                  IN  /\ Len(readings) = Len(points)
                      /\ \A i \in 1 .. Len(points) :
                            /\ readings[i].gpheight
                                  = points[i].properties.gpheight
                            /\ readings[i].location = points[i].geometry

C25_ImportKeepsThePointFeatures == [][C25_Step]_vars

(***************************************************************************)
(* C26.  For every imported balloon launch, last_modified is the latest    *)
(* time stamp among its readings, whatever the order of the features in    *)
(* the file, and location is the location of the first Point feature of    *)
(* the file.                                                               *)
(***************************************************************************)
C26_LastModifiedIsTheLatestReading ==
    \A id \in DOMAIN weather_balloon_reports :
        LET report == weather_balloon_reports[id]
            readings == report["readings"]
        IN  /\ \A i \in 1 .. Len(readings) :
                  readings[i].timestamp <= report["last_modified"]
            /\ \E i \in 1 .. Len(readings) :
                  readings[i].timestamp = report["last_modified"]
            /\ report["location"] = readings[1].location

====
